---- MODULE Spec2Model ----
(***************************************************************************)
(* Model of the actix-js request-dispatch core: the route registry         *)
(* (router/store.rs), the published reader snapshot and the match cache    *)
(* (router/read_only.rs), the dispatcher (lib.rs, handle_dynamic_route),   *)
(* the request object handed to the callback (request.rs) and the          *)
(* translation of its response record (response.rs).                       *)
(***************************************************************************)
EXTENDS Integers, Sequences, FiniteSets, TLC

(***************************************************************************)
(* Bounds of the model.                                                    *)
(***************************************************************************)
\* register calls made by the host (each call brings a fresh callback handle)
MaxRegs == 2
\* requests that reach the dispatcher in the routing specification
MaxReq == 1
\* terminal send calls the callback makes on one request object
MaxSends == 2
\* add_header calls the callback makes on one request object
MaxHeaders == 1
\* seconds a dispatch is followed after its deadline has passed
MaxOverrun == 1
\* server tasks spawned by start() that have not run yet
MaxSpawned == 1
\* multipart bodies whose form data is computed
MaxUploads == 2
\* body readers the callback calls on one request object
MaxReads == 3

(***************************************************************************)
(* Program constants.                                                      *)
(***************************************************************************)
\* lib.rs:150  tokio::time::timeout(Duration::from_secs(5), rx)
TIMEOUT_SECS == 5
\* router/read_only.rs:116  RouteCache::new(1000)
CACHE_CAPACITY == 1000
\* lib.rs:76-84  HttpServer::new(..).bind(..).run() sets no shutdown_timeout,
\* so a graceful stop gives the workers the framework's default of 30 seconds
SHUTDOWN_TIMEOUT_SECS == 30

(***************************************************************************)
(* Methods, patterns and paths.                                            *)
(***************************************************************************)
\* node_functions.rs: enum Methods, the five methods a route can have
Methods == {"GET", "POST", "PUT", "PATCH", "DELETE"}
\* the methods the host registers routes for in the model
RegMethods == {"GET", "POST"}
\* the methods of incoming requests; HEAD stands for every method outside Methods
ReqMethods == {"GET", "HEAD"}

\* A pattern is a sequence of segments <<kind, text>>: "s" a literal segment,
\* "p" a named parameter (":name").
PatHello == << <<"s", "hello">> >>
PatUserId == << <<"s", "users">>, <<"p", "id">> >>
Patterns == {PatHello, PatUserId}

\* A request path is the sequence of its segments.
PathHello == <<"hello">>
PathUser42 == <<"users", "42">>
PathNope == <<"nope">>
Paths == {PathHello, PathUser42, PathNope}
\* /users, /users/ and /users/42/x: no segment, an empty segment and two
\* segments where /users/:id has its parameter
PathUsers == <<"users">>
PathUsersSlash == <<"users", "">>
PathUser42X == <<"users", "42", "x">>
\* the paths requested from the started server of the dispatch specifications
DispatchPaths == Paths \cup {PathUsers, PathUsersSlash, PathUser42X}

\* the absent callback handle; the handles of the model are 1..MaxRegs
NoHandle == 0

NoParams == <<>>

VARIABLES
  writer,    \* GLOBAL_DATA: per method, pattern -> callback handle
  regCalls,  \* register calls made so far (the next handle is regCalls + 1)
  ret,       \* what the last register / cleanup / start call returned
  reader,    \* ROUTER: the published snapshot cell
  cache,     \* ROUTE_CACHE: per method, the LRU list (most recent last)
  serverUp,  \* an HTTP server is listening and runs the dispatcher
  spawned,   \* server tasks spawned by start() that have not run yet
  handle,    \* Server.handle: TRUE when it holds Some(ServerHandle)
  stop,      \* the stop() call that awaits the shutdown, and for how long
  pc,        \* per request: where its dispatch is
  rq,        \* per request: method, path, callback and params of the dispatch
  chan,      \* per request: the oneshot response channel
  wrap,      \* per request: the request object handed to the callback
  sendRet,   \* per request: what the terminal sends returned, in call order
  statusRet, \* per request: what the last status(code) call returned
  elapsed,   \* per request: seconds since the callback was invoked
  http,      \* per request: the HTTP responses written
  files,     \* the files of the static/ directory: path and content
  form,      \* the form_data results computed so far, in order
  objects,   \* the request object whose body readers are followed, if any
  calls      \* per host thread: its add_new_route call and how far it has got

lifeVars == <<serverUp, spawned, handle, stop>>
routerVars == <<writer, regCalls, ret, reader, cache, serverUp, spawned, handle, stop>>
reqVars == <<pc, rq, chan, wrap, sendRet, statusRet, elapsed, http>>
fileVars == <<files, form, objects>>
callVars == <<calls>>
vars == <<writer, regCalls, ret, reader, cache, serverUp, spawned, handle, stop,
          pc, rq, chan, wrap, sendRet, statusRet, elapsed, http, files, form, objects, calls>>

Requests == DOMAIN pc

(***************************************************************************)
(* matchit::Router, as far as the registry uses it.                        *)
(***************************************************************************)
\* Router::new()
EmptyRouter == [p \in Patterns |-> NoHandle]

\* the five empty tries
EmptyRoutes == [m \in Methods |-> EmptyRouter]

\* faulty variant of SegMatches: a parameter also takes an empty segment
SegMatchesEmpty(seg, s) == seg[1] = "p" \/ seg[2] = s

\* a pattern matches a path: same number of segments, literals equal, a
\* parameter takes exactly one segment, which is not empty
SegMatches(seg, s) == IF seg[1] = "p" THEN s # "" ELSE seg[2] = s

PatMatches(pat, path) ==
  /\ Len(pat) = Len(path)
  /\ \A i \in 1..Len(pat) : SegMatches(pat[i], path[i])

\* static segments outrank parameter segments, decided at the first segment
\* where two matching patterns differ in kind
Outranks(p1, p2) ==
  \E i \in 1..Len(p1) :
    /\ i <= Len(p2)
    /\ p1[i][1] = "s" /\ p2[i][1] = "p"
    /\ \A j \in 1..(i - 1) : p1[j][1] = p2[j][1]

\* the captured params of a match, in pattern order: <<name, value>> pairs
RECURSIVE Captures(_, _)
Captures(pat, path) ==
  IF pat = <<>> THEN <<>>
  ELSE IF Head(pat)[1] = "p"
       THEN << <<Head(pat)[2], Head(path)>> >> \o Captures(Tail(pat), Tail(path))
       ELSE Captures(Tail(pat), Tail(path))

\* Router::at(path): the matching route of highest rank, or no match
RouterAt(router, path) ==
  LET cands == {p \in Patterns : router[p] # NoHandle /\ PatMatches(p, path)}
  IN IF cands = {} THEN [found |-> FALSE, value |-> NoHandle, params |-> NoParams]
     ELSE LET best == CHOOSE p \in cands : \A q \in cands : ~Outranks(q, p)
          IN [found |-> TRUE, value |-> router[best], params |-> Captures(best, path)]

(***************************************************************************)
(* router/store.rs: the writer registry.                                   *)
(***************************************************************************)
\* faulty variant of InsertConflicts: an insert over an existing pattern is accepted
InsertNeverConflicts(router, pat) == FALSE

\* Router::insert(route, value): Err when the pattern is already present
InsertConflicts(router, pat) == router[pat] # NoHandle

RouterInsert(router, pat, h) == [router EXCEPT ![pat] = h]

\* thread_to_reader: a clone of one method's trie
thread_to_reader(router) == [p \in Patterns |-> router[p]]

\* faulty variant of as_reader_type: the POST trie is not copied
as_reader_type_without_post(gd) ==
  [m \in Methods |-> IF m = "POST" THEN EmptyRouter ELSE thread_to_reader(gd[m])]

\* InternalRoutes::as_reader_type: clones of the five tries
as_reader_type(gd) == [m \in Methods |-> thread_to_reader(gd[m])]

\* InternalRoutes::cleanup: five fresh tries
InternalCleanup(gd) == [m \in Methods |-> EmptyRouter]

(***************************************************************************)
(* router/read_only.rs: the snapshot cell and the match cache.             *)
(***************************************************************************)
\* ReadRoutes::get_for_actix_method: None outside the five methods
HasRouter(m) == m \in Methods

\* the cell before the first write_reader: MaybeUninit::uninit(). While a
\* write_reader is copying a snapshot in, writing holds, routes is the snapshot
\* being written and old the one it overwrites
UninitReader ==
  [init |-> FALSE, writing |-> FALSE, routes |-> EmptyRoutes, old |-> EmptyRoutes]

\* write_reader, start to end: the cell holds the new snapshot
write_reader(new_reader) ==
  [init |-> TRUE, writing |-> FALSE, routes |-> new_reader, old |-> new_reader]

\* the route whose value lies in the root node of a trie, that is inside the
\* cell itself (Router { root: Node }): a static route that is a prefix of
\* every route of the trie; the values of all other routes lie in child nodes
\* on the heap
RootPattern(router) ==
  LET registered == {p \in Patterns : router[p] # NoHandle}
  IN {p \in registered :
        /\ \A i \in 1..Len(p) : p[i][1] = "s"
        /\ \A q \in registered : Len(p) <= Len(q) /\ SubSeq(q, 1, Len(p)) = p}

\* the value field of the root node (None: NoHandle)
RootValue(router) ==
  IF RootPattern(router) = {} THEN NoHandle
  ELSE router[CHOOSE p \in RootPattern(router) : TRUE]

\* what a reader can find in a trie of the cell while write_reader copies b
\* over a with no synchronisation: all of a, all of b, the root node of one
\* with the value field of the other, or, when the two tries differ in shape,
\* the prefix of one root with the children of the other, where no path matches
TornRouters(a, b) ==
  {a, b}
    \cup {[p \in Patterns |-> IF p \in RootPattern(x[1]) THEN RootValue(x[2]) ELSE x[1][p]] :
            x \in {<<a, b>>, <<b, a>>}}
    \cup (IF {p \in Patterns : a[p] # NoHandle} # {p \in Patterns : b[p] # NoHandle}
          THEN {EmptyRouter} ELSE {})

\* get_routers: a reference into the cell, read without synchronisation: the
\* snapshot when no write is going on, else what the copy has produced so far
get_routers(rd, m) ==
  IF rd.writing /\ HasRouter(m)
  THEN {[rd EXCEPT !.routes[m] = t] : t \in TornRouters(rd.old[m], rd.routes[m])}
  ELSE {rd}

\* params_to_map / params_to_std_map: the ordered captures as a name -> value
\* map, the last capture of a name winning
ParamsToMap(ps) ==
  [n \in {ps[i][1] : i \in 1..Len(ps)} |->
     LET last == CHOOSE i \in 1..Len(ps) :
                   /\ ps[i][1] = n
                   /\ \A j \in (i + 1)..Len(ps) : ps[j][1] # n
     IN ps[last][2]]

\* faulty variant of get_route: a method without a trie is looked up as GET
get_route_default_get(rd, path, m) ==
  LET found == RouterAt(rd.routes[IF HasRouter(m) THEN m ELSE "GET"], path)
  IN IF found.found THEN found.value ELSE NoHandle

\* get_route: the callback of the matching route of the published snapshot
get_route(rd, path, m) ==
  IF ~HasRouter(m) THEN NoHandle
  ELSE LET found == RouterAt(rd.routes[m], path)
       IN IF found.found THEN found.value ELSE NoHandle

\* get_params: Some(params map) of the matching route, None on a miss
get_params(rd, path, m) ==
  IF ~HasRouter(m) THEN [some |-> FALSE, map |-> NoParams]
  ELSE LET found == RouterAt(rd.routes[m], path)
       IN IF found.found THEN [some |-> TRUE, map |-> ParamsToMap(found.params)]
          ELSE [some |-> FALSE, map |-> NoParams]

\* RouteCache::get_cache_for_method: None outside the five methods, so get
\* and put touch no list
HasCache(m) == m \in Methods

\* RouteCache::new: five empty LRU lists
EmptyCache == [m \in Methods |-> <<>>]

\* position of a key in an LRU list, 0 when absent
LruIndex(lru, key) ==
  IF \E i \in 1..Len(lru) : lru[i].route = key
  THEN CHOOSE i \in 1..Len(lru) : lru[i].route = key
  ELSE 0

LruRemove(lru, i) == SubSeq(lru, 1, i - 1) \o SubSeq(lru, i + 1, Len(lru))

\* LruCache::get: a hit moves the entry to most recently used
LruGet(lru, key) ==
  LET i == LruIndex(lru, key)
  IN IF i = 0 THEN lru ELSE Append(LruRemove(lru, i), lru[i])

\* faulty variant of LruPut: nothing is ever evicted
LruPutUnbounded(lru, entry) ==
  LET i == LruIndex(lru, entry.route)
  IN IF i # 0 THEN Append(LruRemove(lru, i), entry) ELSE Append(lru, entry)

\* LruCache::put: replace or insert as most recently used, evicting the least
\* recently used entry of a full list
LruPut(lru, entry) ==
  LET i == LruIndex(lru, entry.route)
  IN IF i # 0 THEN Append(LruRemove(lru, i), entry)
     ELSE IF Len(lru) >= CACHE_CAPACITY THEN Append(Tail(lru), entry)
     ELSE Append(lru, entry)

\* faulty variant of clear_route_cache: the lists are left as they are
clear_route_cache_nothing == cache

\* RouteCache::clear, clear_route_cache: all five lists emptied
clear_route_cache == EmptyCache

(***************************************************************************)
(* The host-facing registry operations.                                    *)
(***************************************************************************)
\* faulty variant of add_new_route: the insert is also written through to the
\* published snapshot
add_new_route_publishing(m, pat) ==
  /\ regCalls < MaxRegs
  /\ regCalls' = regCalls + 1
  /\ IF InsertConflicts(writer[m], pat)
     THEN /\ ret' = [op |-> "register", ok |-> FALSE]
          /\ UNCHANGED <<writer, cache, reader>>
     ELSE /\ writer' = [writer EXCEPT ![m] = RouterInsert(@, pat, regCalls + 1)]
          /\ reader' = IF reader.init THEN write_reader(as_reader_type(writer')) ELSE reader
          /\ cache' = clear_route_cache
          /\ ret' = [op |-> "register", ok |-> TRUE]
  /\ UNCHANGED lifeVars

\* add_new_route (new_route_async, get_async, post_async, ...): insert into
\* the method's writer trie; on success clear the match cache
add_new_route(m, pat) ==
  /\ regCalls < MaxRegs
  /\ regCalls' = regCalls + 1
  /\ IF InsertConflicts(writer[m], pat)
     THEN /\ ret' = [op |-> "register", ok |-> FALSE]
          /\ UNCHANGED <<writer, cache>>
     ELSE /\ writer' = [writer EXCEPT ![m] = RouterInsert(@, pat, regCalls + 1)]
          /\ cache' = clear_route_cache
          /\ ret' = [op |-> "register", ok |-> TRUE]
  /\ UNCHANGED <<reader, lifeVars>>

Register(m, pat) == add_new_route(m, pat) /\ UNCHANGED reqVars /\ UNCHANGED <<fileVars, callVars>>

\* The same call, step by step, for host threads that call concurrently.
\* The threads that register; each makes one call
Callers == 1..MaxRegs

NoCallState ==
  [pc |-> "idle", method |-> "", pat |-> <<>>, function |-> NoHandle,
   trie |-> EmptyRouter, ok |-> FALSE, params |-> NoParams]

\* faulty variant of MutexFree: lock() never waits
MutexAlwaysFree == TRUE

\* GLOBAL_DATA.lock() returns: no other thread holds the guard, neither in
\* add_new_route nor in initialise_reader. (The RwLock of the method is only
\* ever taken under this mutex and never waits.)
MutexFree == ~reader.writing /\ \A c \in Callers : calls[c].pc # "locked"

\* new_route_async(route, method, callback): the call is made
RegCall(c, m, pat) ==
  /\ calls[c].pc = "idle"
  /\ regCalls < MaxRegs
  /\ regCalls' = regCalls + 1
  /\ calls' = [calls EXCEPT ![c] = [NoCallState EXCEPT !.pc = "called", !.method = m,
                                     !.pat = pat, !.function = regCalls + 1]]
  /\ UNCHANGED <<writer, ret, reader, cache, lifeVars>>
  /\ UNCHANGED <<reqVars, fileVars>>

\* store.rs:86-88: the mutex and the write lock of the method's trie are
\* taken; insert works on the trie as it is now
RegLock(c) ==
  /\ calls[c].pc = "called"
  /\ MutexFree
  /\ calls' = [calls EXCEPT ![c].pc = "locked", ![c].trie = writer[calls[c].method]]
  /\ UNCHANGED routerVars
  /\ UNCHANGED <<reqVars, fileVars>>

\* faulty variant of RegInsert: on an Err the guards are kept, the call never
\* gets past the insert
RegInsertKeepsGuard(c) ==
  /\ calls[c].pc = "locked"
  /\ IF InsertConflicts(calls[c].trie, calls[c].pat)
     THEN /\ calls' = [calls EXCEPT ![c].ok = FALSE]
          /\ ret' = [op |-> "register", ok |-> FALSE]
          /\ writer' = writer
     ELSE /\ calls' = [calls EXCEPT ![c].pc = "unlocked"]
          /\ writer' = [writer EXCEPT ![calls[c].method] =
                          RouterInsert(calls[c].trie, calls[c].pat, calls[c].function)]
          /\ ret' = ret
  /\ UNCHANGED <<regCalls, reader, cache, lifeVars>>
  /\ UNCHANGED <<reqVars, fileVars>>

\* store.rs:90-95: insert; an Err returns at once (the guards are dropped, the
\* cache is not cleared), else the trie is updated and the guards are dropped
RegInsert(c) ==
  /\ calls[c].pc = "locked"
  /\ IF InsertConflicts(calls[c].trie, calls[c].pat)
     THEN /\ calls' = [calls EXCEPT ![c].pc = "done", ![c].ok = FALSE]
          /\ ret' = [op |-> "register", ok |-> FALSE]
          /\ writer' = writer
     ELSE /\ calls' = [calls EXCEPT ![c].pc = "unlocked"]
          /\ writer' = [writer EXCEPT ![calls[c].method] =
                          RouterInsert(calls[c].trie, calls[c].pat, calls[c].function)]
          /\ ret' = ret
  /\ UNCHANGED <<regCalls, reader, cache, lifeVars>>
  /\ UNCHANGED <<reqVars, fileVars>>

\* store.rs:96-98: the cache is cleared, Ok(()) is returned
RegClear(c) ==
  /\ calls[c].pc = "unlocked"
  /\ calls' = [calls EXCEPT ![c].pc = "done", ![c].ok = TRUE]
  /\ cache' = clear_route_cache
  /\ ret' = [op |-> "register", ok |-> TRUE]
  /\ UNCHANGED <<writer, regCalls, reader, lifeVars>>
  /\ UNCHANGED <<reqVars, fileVars>>

\* cleanup_route (cleanup_router, force_cleanup): fresh writer tries, cache cleared
cleanup_route ==
  /\ writer' = InternalCleanup(writer)
  /\ cache' = clear_route_cache
  /\ ret' = [op |-> "cleanup", ok |-> TRUE]
  /\ UNCHANGED <<regCalls, reader, lifeVars>>

Cleanup == cleanup_route /\ UNCHANGED reqVars /\ UNCHANGED <<fileVars, callVars>>

\* initialise_reader: publish a copy of the writer tries, clear the cache
initialise_reader ==
  /\ reader' = write_reader(as_reader_type(writer))
  /\ cache' = clear_route_cache

\* the port is free for a bind: no server of this process listens on it
\* (another process may hold it all the same, so a bind can always fail)
PortFree == ~serverUp

\* no stop() call is waiting for a shutdown
NoStop == [active |-> FALSE, elapsed |-> 0]

\* faulty variant of start: the snapshot is published before the probe bind
start_publish_first(bindOk) ==
  /\ initialise_reader
  /\ IF bindOk
     THEN /\ PortFree
          /\ spawned < MaxSpawned
          /\ spawned' = spawned + 1
          /\ ret' = [op |-> "start", ok |-> TRUE]
          /\ UNCHANGED <<writer, regCalls, serverUp, handle, stop>>
     ELSE /\ ret' = [op |-> "start", ok |-> FALSE]
          /\ UNCHANGED <<writer, regCalls, lifeVars>>

\* faulty variant of start: the task is spawned and nothing is published
start_without_publish(bindOk) ==
  IF bindOk
  THEN /\ PortFree
       /\ spawned < MaxSpawned
       /\ spawned' = spawned + 1
       /\ ret' = [op |-> "start", ok |-> TRUE]
       /\ UNCHANGED <<writer, regCalls, reader, cache, serverUp, handle, stop>>
  ELSE /\ ret' = [op |-> "start", ok |-> FALSE]
       /\ UNCHANGED <<writer, regCalls, reader, cache, lifeVars>>

\* Server::start: the probe bind decides; on success the snapshot is published
\* and the task that binds and runs the server is spawned
start(bindOk) ==
  IF bindOk
  THEN /\ PortFree
       /\ spawned < MaxSpawned
       /\ initialise_reader
       /\ spawned' = spawned + 1
       /\ ret' = [op |-> "start", ok |-> TRUE]
       /\ UNCHANGED <<writer, regCalls, serverUp, handle, stop>>
  ELSE /\ ret' = [op |-> "start", ok |-> FALSE]
       /\ UNCHANGED <<writer, regCalls, reader, cache, lifeVars>>

Start(bindOk) == start(bindOk) /\ UNCHANGED reqVars /\ UNCHANGED <<fileVars, callVars>>

\* the task spawned by Server::start (lib.rs:75-98): bind(..).unwrap() panics
\* when the real bind fails; otherwise the server runs and its handle is stored
ServerTask(bindOk) ==
  /\ spawned > 0
  /\ spawned' = spawned - 1
  /\ IF bindOk
     THEN /\ PortFree
          /\ serverUp' = TRUE
          /\ handle' = TRUE
     ELSE UNCHANGED <<serverUp, handle>>
  /\ UNCHANGED <<writer, regCalls, ret, reader, cache, stop>>
  /\ UNCHANGED reqVars
  /\ UNCHANGED <<fileVars, callVars>>

\* Server::start of a further Server object of the process, on a port that is
\* free: the probe bind succeeds, initialise_reader takes the writer lock,
\* copies the tries and starts to overwrite the process-wide cell in place.
\* The dispatchers of the servers that run read the cell meanwhile. (The task
\* and the handle of the further server are its own and not followed.)
Republish ==
  /\ serverUp
  /\ ~reader.writing
  /\ reader' = [init |-> TRUE, writing |-> TRUE,
                routes |-> as_reader_type(writer), old |-> reader.routes]
  /\ UNCHANGED <<writer, regCalls, ret, cache, lifeVars>>
  /\ UNCHANGED reqVars
  /\ UNCHANGED <<fileVars, callVars>>

\* the overwrite is complete: the cache is cleared, the writer lock released,
\* start returns Ok
RepublishDone ==
  /\ reader.writing
  /\ reader' = write_reader(reader.routes)
  /\ cache' = clear_route_cache
  /\ ret' = [op |-> "start", ok |-> TRUE]
  /\ UNCHANGED <<writer, regCalls, lifeVars>>
  /\ UNCHANGED reqVars
  /\ UNCHANGED <<fileVars, callVars>>

\* faulty variant of get_route_with_params_cached: a miss is stored as well
get_route_with_params_cached_all(path, m) ==
  /\ reader.init
  /\ IF ~HasCache(m) \/ ~HasRouter(m)
     THEN cache' = cache
     ELSE LET hit == LruIndex(cache[m], path)
              found == RouterAt(reader.routes[m], path)
          IN IF hit # 0
             THEN cache' = [cache EXCEPT ![m] = LruGet(@, path)]
             ELSE cache' = [cache EXCEPT ![m] =
                              LruPut(@, [route |-> path, callback |-> found.value,
                                         params |-> ParamsToMap(found.params)])]
  /\ UNCHANGED <<writer, regCalls, ret, reader, lifeVars>>

\* get_route_with_params_cached (get_route_with_params): the cache first, then
\* the snapshot; only a successful match is stored
get_route_with_params_cached(path, m) ==
  /\ reader.init
  /\ IF ~HasCache(m) \/ ~HasRouter(m)
     THEN cache' = cache
     ELSE LET hit == LruIndex(cache[m], path)
              found == RouterAt(reader.routes[m], path)
          IN IF hit # 0
             THEN cache' = [cache EXCEPT ![m] = LruGet(@, path)]
             ELSE IF found.found
             THEN cache' = [cache EXCEPT ![m] =
                              LruPut(@, [route |-> path, callback |-> found.value,
                                         params |-> ParamsToMap(found.params)])]
             ELSE cache' = cache
  /\ UNCHANGED <<writer, regCalls, ret, reader, lifeVars>>

CachedLookup(path, m) == get_route_with_params_cached(path, m) /\ UNCHANGED reqVars /\ UNCHANGED <<fileVars, callVars>>

\* The same lookup, step by step, for a thread that runs beside the host.
\* read_only.rs:128-137: cache.get under the mutex of the method's list, which
\* is released at once; a hit returns, a miss matches against the cell
CachedLookupMatch(c, path, m) ==
  /\ reader.init
  /\ calls[c].pc = "idle"
  /\ HasCache(m) /\ HasRouter(m)
  /\ IF LruIndex(cache[m], path) # 0
     THEN /\ cache' = [cache EXCEPT ![m] = LruGet(@, path)]
          /\ calls' = [calls EXCEPT ![c] = [NoCallState EXCEPT !.pc = "done", !.method = m,
                                             !.pat = path, !.ok = TRUE]]
     ELSE /\ cache' = cache
          /\ \E view \in get_routers(reader, m) :
               LET found == RouterAt(view.routes[m], path)
               IN calls' = [calls EXCEPT ![c] =
                              [NoCallState EXCEPT !.pc = IF found.found THEN "found" ELSE "done",
                                                  !.method = m, !.pat = path,
                                                  !.function = found.value,
                                                  !.params = ParamsToMap(found.params),
                                                  !.ok = found.found]]
  /\ UNCHANGED <<writer, regCalls, ret, reader, lifeVars>>
  /\ UNCHANGED <<reqVars, fileVars>>

\* read_only.rs:139-150: the match is put into the list of the method, under
\* its mutex, and returned
CachedLookupPut(c) ==
  /\ calls[c].pc = "found"
  /\ cache' = [cache EXCEPT ![calls[c].method] =
                 LruPut(@, [route |-> calls[c].pat, callback |-> calls[c].function,
                            params |-> calls[c].params])]
  /\ calls' = [calls EXCEPT ![c].pc = "done"]
  /\ UNCHANGED <<writer, regCalls, ret, reader, lifeVars>>
  /\ UNCHANGED <<reqVars, fileVars>>

(***************************************************************************)
(* response.rs: the response record and its translation.                   *)
(***************************************************************************)
\* Option<u16>::None of the status override
NoStatus == 0

\* Option<Vec<(String, String)>>
NoHeaders == [some |-> FALSE, list |-> <<>>]
SomeHeaders(hs) == [some |-> TRUE, list |-> hs]

\* the empty oneshot slot
NoValue == [inner |-> [tag |-> "None", payload |-> ""],
            status_code |-> NoStatus, headers |-> NoHeaders]

\* HeaderValue::from_str: a value with a control character is refused
HeaderBad == "a\nb"
HeaderValueOk(v) == v # HeaderBad

\* the custom headers a response gets: malformed values skipped, order kept
AppliedHeaders(hs) == SelectSeq(hs, LAMBDA h : HeaderValueOk(h[2]))

\* faulty variant of get_status_code: the override is not consulted
get_status_code_ok(resp) == 200

\* JsResponse::get_status_code: the override when it is a valid status, else 200
get_status_code(resp) ==
  IF resp.status_code = NoStatus THEN 200
  ELSE IF resp.status_code >= 100 /\ resp.status_code <= 999 THEN resp.status_code
  ELSE 200

\* JsResponse::into_http_response
into_http_response(resp) ==
  CASE resp.inner.tag = "ServerError" ->
         [status |-> 500, content_type |-> "text/plain", headers |-> <<>>,
          body |-> "Internal Server Error"]
    [] resp.inner.tag = "ServerErrorWithMessage" ->
         [status |-> 500, content_type |-> "text/plain", headers |-> <<>>,
          body |-> resp.inner.payload]
    [] resp.inner.tag \in {"Text", "EmptyString"} ->
         [status |-> get_status_code(resp),
          content_type |-> "text/plain; charset=utf-8",
          headers |-> IF resp.headers.some THEN AppliedHeaders(resp.headers.list)
                      ELSE <<>>,
          body |-> IF resp.inner.tag = "Text" THEN resp.inner.payload ELSE ""]
    [] resp.inner.tag = "Json" ->
         [status |-> get_status_code(resp),
          content_type |-> "application/json; charset=utf-8",
          headers |-> IF resp.headers.some THEN AppliedHeaders(resp.headers.list)
                      ELSE <<>>,
          body |-> resp.inner.payload]
    [] resp.inner.tag = "Raw" ->
         [status |-> get_status_code(resp),
          content_type |-> "application/octet-stream",
          headers |-> IF resp.headers.some THEN AppliedHeaders(resp.headers.list)
                      ELSE <<>>,
          body |-> resp.inner.payload]

(***************************************************************************)
(* lib.rs: the dispatcher's own responses.                                 *)
(***************************************************************************)
\* faulty variant of NotFoundResponse: the body does not carry the requested path
NotFoundResponseNoPath(path) ==
  [status |-> 404, content_type |-> "application/json", headers |-> <<>>,
   body |-> <<"Route not found", <<>> >>]

\* 404 {"error": "Route not found", "path": "<path>"}
NotFoundResponse(path) ==
  [status |-> 404, content_type |-> "application/json", headers |-> <<>>,
   body |-> <<"Route not found", path>>]

\* 500 {"error": "JavaScript callback did not send response"}
DroppedResponse ==
  [status |-> 500, content_type |-> "application/json", headers |-> <<>>,
   body |-> "JavaScript callback did not send response"]

\* 408 {"error": "Request timeout - JavaScript callback took too long"}
TimeoutResponse ==
  [status |-> 408, content_type |-> "application/json", headers |-> <<>>,
   body |-> "Request timeout - JavaScript callback took too long"]

(***************************************************************************)
(* tokio::sync::oneshot, as the dispatcher and the request object use it.  *)
(***************************************************************************)
\* no channel yet
NoChan == [tx |-> "none", rx |-> "none", value |-> NoValue]

\* oneshot::channel()
NewChan == [tx |-> "live", rx |-> "waiting", value |-> NoValue]

\* Sender::send fails exactly when the receiver is gone
SendDelivers(ch) == ch.rx = "waiting"

\* Sender::send consumes the sender; the value is stored when a receiver is left
OneshotSend(ch, v) ==
  IF SendDelivers(ch) THEN [ch EXCEPT !.tx = "used", !.value = v]
  ELSE [ch EXCEPT !.tx = "used"]

\* faulty variant of OneshotDropSender: the sender outlives the request object
OneshotDropSenderLeak(ch) == ch

\* dropping the sender unsent closes the channel
OneshotDropSender(ch) == IF ch.tx = "live" THEN [ch EXCEPT !.tx = "dropped"] ELSE ch

\* faulty variant of RxPoll: an empty channel is taken for a closed one (try_recv)
RxPollTry(ch) == IF ch.value # NoValue THEN "value" ELSE "closed"

\* polling the receiver: the value, the closed error, or pending
RxPoll(ch) ==
  IF ch.value # NoValue THEN "value"
  ELSE IF ch.tx = "dropped" THEN "closed"
  ELSE "pending"

(***************************************************************************)
(* request.rs: the request object handed to the callback.                  *)
(***************************************************************************)
\* the JSON value {}
ObjEmpty == "EmptyObject"

\* a map without entries (HashMap::new())
EmptyMap == [n \in {} |-> ""]

\* the HTTP request that arrives for a method and path: GET /hello comes bare,
\* /users/42 comes as /users/42?a=1 with a JSON body
BodyOf(path) == IF path = PathUser42 THEN "{}" ELSE ""

HttpRequestOf(m, path) ==
  LET query == IF path = PathUser42 THEN "a=1" ELSE ""
  IN [path |-> path, method |-> m, query_string |-> query,
      uri |-> <<path, query>>,
      headers |-> IF path = PathUser42
                  THEN [n \in {"content-type"} |-> "application/json"]
                  ELSE EmptyMap]

NoRequest == [path |-> <<>>, method |-> "", query_string |-> "",
              uri |-> <<>>, headers |-> EmptyMap]

\* no request object
NoWrap == [state |-> "none", response_sender |-> FALSE, sent |-> FALSE,
           status_code |-> NoStatus, headers |-> <<>>,
           request |-> NoRequest, body |-> "", path_params |-> NoParams]

\* RequestWrapper::new_with_params followed by set_response_sender; the
\* detached request object holds the same data, extracted at construction
NewWrap(req, body, path_params) ==
  [state |-> "alive", response_sender |-> TRUE, sent |-> FALSE,
   status_code |-> NoStatus, headers |-> <<>>,
   request |-> req, body |-> body, path_params |-> path_params]

\* parse_query_params_static: the key=value pairs of the query string
parse_query_params(q) == IF q = "a=1" THEN [n \in {"a"} |-> "1"] ELSE EmptyMap

\* Bytes::len of a body
BodyLen(b) == IF b = "{}" THEN 2 ELSE 0

\* is_json_content_type and parse_json_static: Some(value) for a JSON body
\* sent as application/json, else None
parse_json(hs, b) ==
  IF "content-type" \in DOMAIN hs /\ hs["content-type"] = "application/json"
     /\ b = "{}"
  THEN <<ObjEmpty>> ELSE <<>>

\* is_form_content_type and parse_form_data_static, read through
\* get_form_data: the empty object unless the body is a form (none is here)
parse_form_data(hs, b) == ObjEmpty

\* Option<String> of a map entry
MapGet(map, n) == IF n \in DOMAIN map THEN <<map[n]>> ELSE <<>>

\* the names header(name) and path_param(name) are asked for
GetterNames == {"content-type", "x-a", "id", "a"}

\* everything the callback can read from the request object: the getters
Getters(w) ==
  [path |-> w.request.path,
   method |-> w.request.method,
   query_string |-> w.request.query_string,
   uri |-> w.request.uri,
   headers |-> w.request.headers,
   header |-> [n \in GetterNames |-> MapGet(w.request.headers, n)],
   query_params |-> parse_query_params(w.request.query_string),
   body_string |-> w.body,
   body_size |-> BodyLen(w.body),
   has_body |-> BodyLen(w.body) # 0,
   body_json |-> parse_json(w.request.headers, w.body),
   form_data |-> parse_form_data(w.request.headers, w.body),
   path_params |-> w.path_params,
   path_param |-> [n \in GetterNames |-> MapGet(w.path_params, n)]]

\* serde_json::to_string of the object given to send_object
ToJsonString(obj) == IF obj = ObjEmpty THEN "{}" ELSE "null"

\* the terminal sends the callback can make
SendCalls ==
  { [op |-> "send_text", arg |-> "a"],
    [op |-> "send_json", arg |-> "[]"],
    [op |-> "send_object", arg |-> ObjEmpty],
    [op |-> "send_empty", arg |-> ""],
    [op |-> "send_error", arg |-> ""],
    [op |-> "send_error", arg |-> "boom"] }

\* the call of a send that was refused
NoCall == [op |-> "none", arg |-> ""]

\* send_text, send_json, send_object, send_empty, send_error: the InnerResp
\* each hands to send_response (send_error without a message: ServerError)
InnerOf(call) ==
  CASE call.op = "send_text" -> [tag |-> "Text", payload |-> call.arg]
    [] call.op = "send_json" -> [tag |-> "Json", payload |-> call.arg]
    [] call.op = "send_object" -> [tag |-> "Json", payload |-> ToJsonString(call.arg)]
    [] call.op = "send_empty" -> [tag |-> "EmptyString", payload |-> ""]
    [] call.op = "send_error" ->
         IF call.arg = "" THEN [tag |-> "ServerError", payload |-> ""]
         ELSE [tag |-> "ServerErrorWithMessage", payload |-> call.arg]

\* send_response: the record built from the request object's response state
BuildResponse(w, inner) ==
  [inner |-> inner, status_code |-> w.status_code,
   headers |-> IF w.headers = <<>> THEN NoHeaders ELSE SomeHeaders(w.headers)]

\* faulty variant of AlreadySent: the sent flag is not consulted
NeverAlreadySent(w) == FALSE

\* send_response: a second send is refused
AlreadySent(w) == w.sent

\* faulty variant of SendResult: a failed Sender::send is reported to the callback
SendResultStrict(delivered) == IF delivered THEN "ok" ELSE "receiver_gone"

\* send_response: what the callback gets back once the record was handed to
\* the channel (a failed Sender::send is only logged)
SendResult(delivered) == "ok"

\* the status codes and headers the callback tries
StatusInputs == {99, 404, 1000}
HeaderInputs == { <<"x-a", "1">>, <<"x-b", HeaderBad>> }

\* faulty variant of StatusAccepted: the range check is off by one at the top
StatusAcceptedInclusive(w, code) == ~w.sent /\ code >= 100 /\ code <= 1000

\* set_status_code: refused after a send and outside 100..999
StatusAccepted(w, code) == ~w.sent /\ code >= 100 /\ code < 1000

\* set_status_code: the bool it returns and the request object it leaves
set_status_code(w, code) ==
  IF StatusAccepted(w, code)
  THEN [ok |-> TRUE, wrap |-> [w EXCEPT !.status_code = code]]
  ELSE [ok |-> FALSE, wrap |-> w]

\* no status(code) call made yet; a call records the bool returned and
\* whether the request object had been sent when it was made
NoStatusRet == [called |-> FALSE, ok |-> FALSE, after_send |-> FALSE]

\* faulty variant of HeaderAccepted: the sent flag is not consulted
HeaderAcceptedAlways(w) == TRUE

\* add_header: ignored after a send
HeaderAccepted(w) == ~w.sent

\* faulty variant of add_header: the header goes into the request's headers
add_header_to_request(w, h) ==
  IF HeaderAccepted(w)
  THEN [w EXCEPT !.request.headers =
          [n \in DOMAIN w.request.headers \cup {h[1]} |->
             IF n = h[1] THEN h[2] ELSE w.request.headers[n]]]
  ELSE w

\* add_header: the request object it leaves (it returns nothing)
add_header(w, h) ==
  IF HeaderAccepted(w) THEN [w EXCEPT !.headers = Append(@, h)] ELSE w

(***************************************************************************)
(* lib.rs: handle_dynamic_route, the dispatcher.                           *)
(***************************************************************************)
\* callback: the callback the reference returned by get_route designated at
\* the lookup; ref: where the reference points, into the root node inside the
\* cell or into a node on the heap; captured: the params of that match;
\* invoked: the callback the reference designated when it was called; status:
\* the napi Status that the call of the threadsafe function returned
NoRq ==
  [method |-> "", path |-> <<>>, callback |-> NoHandle, ref |-> "none",
   captured |-> NoParams, params |-> NoParams, invoked |-> NoHandle,
   status |-> "none"]

\* what ThreadsafeFunction::call(Ok(request_wrapper), NonBlocking) can return:
\* Ok, the request object is queued for the callback; Closing, the function was
\* aborted and the call returns at once, dropping the request object it was
\* given; QueueFull, the host runtime refused the boxed request object, which
\* nobody owns any more and which is never dropped
BridgeStatus == {"Ok", "Closing", "QueueFull"}

\* faulty variant of Lookup: the lookup takes the writer mutex first
LookupUnderMutex(r, m, path) ==
  /\ MutexFree
  /\ serverUp
  /\ pc[r] = "idle"
  /\ \E view \in get_routers(reader, m) :
       LET cb == get_route(view, path, m)
       IN IF cb # NoHandle
          THEN /\ pc' = [pc EXCEPT ![r] = "matched"]
               /\ rq' = [rq EXCEPT ![r] =
                           [NoRq EXCEPT !.method = m, !.path = path, !.callback = cb,
                              !.ref = IF HasRouter(m) /\ RootValue(view.routes[m]) = cb
                                      THEN "root" ELSE "node",
                              !.captured = get_params(view, path, m).map]]
               /\ http' = http
          ELSE /\ pc' = [pc EXCEPT ![r] = "done"]
               /\ rq' = [rq EXCEPT ![r] = [NoRq EXCEPT !.method = m, !.path = path]]
               /\ http' = [http EXCEPT ![r] = Append(@, NotFoundResponse(path))]
  /\ UNCHANGED <<chan, wrap, sendRet, statusRet, elapsed>>
  /\ UNCHANGED routerVars
  /\ UNCHANGED <<fileVars, callVars>>

\* lines 125-129 and 168-176: look the route up; a miss is answered 404 at once
Lookup(r, m, path) ==
  /\ serverUp
  /\ pc[r] = "idle"
  /\ \E view \in get_routers(reader, m) :
       LET cb == get_route(view, path, m)
       IN IF cb # NoHandle
          THEN /\ pc' = [pc EXCEPT ![r] = "matched"]
               /\ rq' = [rq EXCEPT ![r] =
                           [NoRq EXCEPT !.method = m, !.path = path, !.callback = cb,
                              !.ref = IF HasRouter(m) /\ RootValue(view.routes[m]) = cb
                                      THEN "root" ELSE "node",
                              !.captured = get_params(view, path, m).map]]
               /\ http' = http
          ELSE /\ pc' = [pc EXCEPT ![r] = "done"]
               /\ rq' = [rq EXCEPT ![r] = [NoRq EXCEPT !.method = m, !.path = path]]
               /\ http' = [http EXCEPT ![r] = Append(@, NotFoundResponse(path))]
  /\ UNCHANGED <<chan, wrap, sendRet, statusRet, elapsed>>
  /\ UNCHANGED routerVars
  /\ UNCHANGED <<fileVars, callVars>>

\* lines 131-147: read the params, create the channel and the request object,
\* hand the request object to the callback: the reference is followed here, and
\* one into the root node reads the value field the cell holds by now. A
\* status other than Ok is only logged (node_functions.rs:181-194)
Invoke(r, status) ==
  /\ pc[r] = "matched"
  /\ \E view \in get_routers(reader, rq[r].method) :
       LET got == get_params(view, rq[r].path, rq[r].method)
           path_params == IF got.some THEN got.map ELSE NoParams
           callback == IF rq[r].ref = "root"
                       THEN RootValue(view.routes[rq[r].method])
                       ELSE rq[r].callback
       IN /\ rq' = [rq EXCEPT ![r].params = path_params, ![r].invoked = callback,
                                ![r].status = status]
          /\ wrap' = [wrap EXCEPT ![r] =
                        [NewWrap(HttpRequestOf(rq[r].method, rq[r].path),
                                 BodyOf(rq[r].path), path_params)
                           EXCEPT !.state = CASE status = "Ok" -> "alive"
                                              [] status = "Closing" -> "dropped"
                                              [] OTHER -> "leaked",
                                  !.response_sender = status # "Closing"]]
  /\ chan' = [chan EXCEPT ![r] = IF status = "Closing" THEN OneshotDropSender(NewChan)
                                 ELSE NewChan]
  /\ elapsed' = [elapsed EXCEPT ![r] = 0]
  /\ pc' = [pc EXCEPT ![r] = "await"]
  /\ UNCHANGED <<sendRet, statusRet, http>>
  /\ UNCHANGED routerVars
  /\ UNCHANGED <<fileVars, callVars>>

\* faulty variants of DeadlinePassed: no timer at all; a timer one second short
DeadlineNever(r) == FALSE

DeadlinePassedEarly(r) == elapsed[r] >= TIMEOUT_SECS - 1

\* line 150: the timer of tokio::time::timeout has fired
DeadlinePassed(r) == elapsed[r] >= TIMEOUT_SECS

\* one second passes for the dispatches that are waiting, and for a stop()
\* that awaits the shutdown
Tick ==
  /\ \E r \in Requests : pc[r] = "await" /\ elapsed[r] < TIMEOUT_SECS + MaxOverrun
  /\ elapsed' = [r \in Requests |->
                   IF pc[r] = "await" /\ elapsed[r] < TIMEOUT_SECS + MaxOverrun
                   THEN elapsed[r] + 1 ELSE elapsed[r]]
  /\ stop' = IF stop.active THEN [stop EXCEPT !.elapsed = @ + 1] ELSE stop
  /\ UNCHANGED <<pc, rq, chan, wrap, sendRet, statusRet, http>>
  /\ UNCHANGED <<writer, regCalls, ret, reader, cache, serverUp, spawned, handle>>
  /\ UNCHANGED <<fileVars, callVars>>

\* lines 151-154: Ok(Ok(js_response))
Respond(r) ==
  /\ pc[r] = "await"
  /\ RxPoll(chan[r]) = "value"
  /\ http' = [http EXCEPT ![r] = Append(@, into_http_response(chan[r].value))]
  /\ chan' = [chan EXCEPT ![r].rx = "dropped"]
  /\ pc' = [pc EXCEPT ![r] = "done"]
  /\ UNCHANGED <<rq, wrap, sendRet, statusRet, elapsed>>
  /\ UNCHANGED routerVars
  /\ UNCHANGED <<fileVars, callVars>>

\* lines 155-160: Ok(Err(_)), the sender was dropped unsent
RespondDropped(r) ==
  /\ pc[r] = "await"
  /\ RxPoll(chan[r]) = "closed"
  /\ http' = [http EXCEPT ![r] = Append(@, DroppedResponse)]
  /\ chan' = [chan EXCEPT ![r].rx = "dropped"]
  /\ pc' = [pc EXCEPT ![r] = "done"]
  /\ UNCHANGED <<rq, wrap, sendRet, statusRet, elapsed>>
  /\ UNCHANGED routerVars
  /\ UNCHANGED <<fileVars, callVars>>

\* lines 161-166: Err(_), the deadline passed with the receiver still pending
RespondTimeout(r) ==
  /\ pc[r] = "await"
  /\ RxPoll(chan[r]) = "pending"
  /\ DeadlinePassed(r)
  /\ http' = [http EXCEPT ![r] = Append(@, TimeoutResponse)]
  /\ chan' = [chan EXCEPT ![r].rx = "dropped"]
  /\ pc' = [pc EXCEPT ![r] = "done"]
  /\ UNCHANGED <<rq, wrap, sendRet, statusRet, elapsed>>
  /\ UNCHANGED routerVars
  /\ UNCHANGED <<fileVars, callVars>>

\* faulty variant of StopGraceful: handle.stop(false)
StopForced == FALSE

\* Server::stop, line 114: handle.stop(true), a graceful stop
StopGraceful == TRUE

\* a dispatch is in flight: accepted and not answered yet
InFlight(r) == pc[r] \in {"matched", "await"}

\* faulty variant of Stop: the handle is read and left in place
StopLeavesHandle ==
  /\ IF handle
     THEN /\ handle' = handle
          /\ serverUp' = FALSE
          /\ stop' = [active |-> TRUE, elapsed |-> 0]
          /\ ret' = ret
     ELSE /\ ret' = [op |-> "stop", ok |-> FALSE]
          /\ UNCHANGED <<handle, serverUp, stop>>
  /\ UNCHANGED <<writer, regCalls, reader, cache, spawned>>
  /\ UNCHANGED reqVars
  /\ UNCHANGED <<fileVars, callVars>>

\* Server::stop up to its await: the handle is taken; without one the call
\* returns the error, with one the server stops accepting and shuts down
Stop ==
  /\ IF handle
     THEN /\ handle' = FALSE
          /\ serverUp' = FALSE
          /\ stop' = [active |-> TRUE, elapsed |-> 0]
          /\ ret' = ret
     ELSE /\ ret' = [op |-> "stop", ok |-> FALSE]
          /\ UNCHANGED <<handle, serverUp, stop>>
  /\ UNCHANGED <<writer, regCalls, reader, cache, spawned>>
  /\ UNCHANGED reqVars
  /\ UNCHANGED <<fileVars, callVars>>

\* handle.stop(graceful).await resolves and stop() returns Ok: a graceful
\* shutdown ends when the workers have no request left or the shutdown
\* timeout has passed, a forced one at once; what is still in flight then is
\* dropped with its connection
StopComplete ==
  /\ stop.active
  /\ IF StopGraceful
     THEN \/ \A r \in Requests : ~InFlight(r)
          \/ stop.elapsed >= SHUTDOWN_TIMEOUT_SECS
     ELSE TRUE
  /\ stop' = [stop EXCEPT !.active = FALSE]
  /\ ret' = [op |-> "stop", ok |-> TRUE]
  /\ pc' = [r \in Requests |-> IF InFlight(r) THEN "cut" ELSE pc[r]]
  /\ chan' = [r \in Requests |->
                IF pc[r] = "await" THEN [chan[r] EXCEPT !.rx = "dropped"] ELSE chan[r]]
  /\ UNCHANGED <<writer, regCalls, reader, cache, serverUp, spawned, handle>>
  /\ UNCHANGED <<rq, wrap, sendRet, statusRet, elapsed, http>>
  /\ UNCHANGED <<fileVars, callVars>>

(***************************************************************************)
(* request.rs: what the callback does with the request object.             *)
(***************************************************************************)
\* set_status_code
SetStatus(r, code) ==
  /\ wrap[r].state = "alive"
  /\ wrap' = [wrap EXCEPT ![r] = set_status_code(@, code).wrap]
  /\ statusRet' = [statusRet EXCEPT ![r] =
                     [called |-> TRUE,
                      ok |-> set_status_code(wrap[r], code).ok,
                      after_send |-> wrap[r].sent]]
  /\ UNCHANGED <<pc, rq, chan, sendRet, elapsed, http>>
  /\ UNCHANGED routerVars
  /\ UNCHANGED <<fileVars, callVars>>

\* add_header
AddHeader(r, h) ==
  /\ wrap[r].state = "alive"
  /\ Len(wrap[r].headers) < MaxHeaders
  /\ wrap' = [wrap EXCEPT ![r] = add_header(@, h)]
  /\ UNCHANGED <<pc, rq, chan, sendRet, statusRet, elapsed, http>>
  /\ UNCHANGED routerVars
  /\ UNCHANGED <<fileVars, callVars>>

\* send_response, reached through send_text, send_json, send_object,
\* send_empty and send_error; of a refused send only the result is recorded
send_response(r, call) ==
  IF AlreadySent(wrap[r])
  THEN /\ sendRet' = [sendRet EXCEPT ![r] =
                        Append(@, [call |-> NoCall, result |-> "already_sent"])]
       /\ UNCHANGED <<wrap, chan>>
  ELSE /\ wrap' = [wrap EXCEPT ![r].sent = TRUE, ![r].response_sender = FALSE]
       /\ IF wrap[r].response_sender
          THEN /\ chan' = [chan EXCEPT ![r] =
                             OneshotSend(@, BuildResponse(wrap[r], InnerOf(call)))]
               /\ sendRet' = [sendRet EXCEPT ![r] =
                                Append(@, [call |-> call,
                                           result |-> SendResult(SendDelivers(chan[r]))])]
          ELSE /\ chan' = chan
               /\ sendRet' = [sendRet EXCEPT ![r] =
                                Append(@, [call |-> call, result |-> "ok"])]

TerminalSend(r, call) ==
  /\ wrap[r].state = "alive"
  /\ Len(sendRet[r]) < MaxSends
  /\ send_response(r, call)
  /\ UNCHANGED <<pc, rq, statusRet, elapsed, http>>
  /\ UNCHANGED routerVars
  /\ UNCHANGED <<fileVars, callVars>>

\* The same send through send_text_async, send_json_async, send_object_async,
\* send_empty_async and send_error_async: each call is a future of its own on
\* the runtime's worker threads, with &mut self and no lock, so two calls that
\* were not awaited run side by side. request.rs:847-849: the sent flag is read
SendAsyncBegin(r, call) ==
  /\ wrap[r].state = "alive"
  /\ Len(sendRet[r]) < MaxSends
  /\ sendRet' = [sendRet EXCEPT ![r] =
                   Append(@, IF AlreadySent(wrap[r])
                             THEN [call |-> NoCall, result |-> "already_sent"]
                             ELSE [call |-> call, result |-> "pending"])]
  /\ UNCHANGED <<pc, rq, chan, wrap, statusRet, elapsed, http>>
  /\ UNCHANGED routerVars
  /\ UNCHANGED <<fileVars, callVars>>

\* request.rs:851-869: the flag is set, the sender taken and used, Ok(())
\* returned. A call that finds the sender taken by the other one either sees
\* None, or still sees the Some it raced with and writes its record over the
\* one in the channel.
SendAsyncEnd(r, i) ==
  /\ i \in 1..Len(sendRet[r])
  /\ sendRet[r][i].result = "pending"
  /\ wrap' = [wrap EXCEPT ![r].sent = TRUE, ![r].response_sender = FALSE]
  /\ LET record == BuildResponse(wrap[r], InnerOf(sendRet[r][i].call))
     IN IF wrap[r].response_sender
        THEN /\ chan' = [chan EXCEPT ![r] = OneshotSend(@, record)]
             /\ sendRet' = [sendRet EXCEPT ![r][i].result = SendResult(SendDelivers(chan[r]))]
        ELSE /\ \E stale \in BOOLEAN :
                  chan' = [chan EXCEPT ![r] =
                             IF stale /\ wrap[r].sent /\ SendDelivers(@)
                             THEN OneshotSend(@, record) ELSE @]
             /\ sendRet' = [sendRet EXCEPT ![r][i].result = "ok"]
  /\ UNCHANGED <<pc, rq, statusRet, elapsed, http>>
  /\ UNCHANGED routerVars
  /\ UNCHANGED <<fileVars, callVars>>

\* the request object is dropped (the callback threw, or the host runtime
\* collected it): a sender still held is dropped with it
DropRequest(r) ==
  /\ wrap[r].state = "alive"
  /\ wrap' = [wrap EXCEPT ![r].state = "dropped", ![r].response_sender = FALSE]
  /\ chan' = [chan EXCEPT ![r] = IF wrap[r].response_sender
                                 THEN OneshotDropSender(@) ELSE @]
  /\ UNCHANGED <<pc, rq, sendRet, statusRet, elapsed, http>>
  /\ UNCHANGED routerVars
  /\ UNCHANGED <<fileVars, callVars>>

(***************************************************************************)
(* request.rs: the form data of a multipart body.                          *)
(***************************************************************************)
\* the file parts that are uploaded, one per body: a name with and one without
\* an extension; content that is text, that is not UTF-8 (byte 255), and that
\* ends with a line break of its own
FileParts ==
  { [name |-> "f", filename |-> fn, bytes |-> b] :
      fn \in {"a.txt", "b"}, b \in {<<97>>, <<255>>, <<97, 13, 10>>} }

\* String::from_utf8_lossy: a byte that is not UTF-8 becomes U+FFFD (EF BF BD)
RECURSIVE from_utf8_lossy(_)
from_utf8_lossy(bs) ==
  IF bs = <<>> THEN <<>>
  ELSE (IF Head(bs) > 127 THEN <<239, 191, 189>> ELSE <<Head(bs)>>)
         \o from_utf8_lossy(Tail(bs))

\* trim_end_matches("\r\n") followed by trim_end_matches("\n"): every trailing
\* CR LF is removed, then every trailing LF
RECURSIVE trim_end(_, _)
trim_end(bs, crlf) ==
  LET n == Len(bs)
  IN IF crlf /\ n >= 2 /\ bs[n - 1] = 13 /\ bs[n] = 10
     THEN trim_end(SubSeq(bs, 1, n - 2), TRUE)
     ELSE IF n >= 1 /\ bs[n] = 10 THEN trim_end(SubSeq(bs, 1, n - 1), FALSE)
     ELSE bs

\* the content the parsers cut out of a part: the body is read as lossy UTF-8,
\* the part runs up to the CR LF before the next delimiter, its end is trimmed
PartContent(part) == trim_end(from_utf8_lossy(part.bytes) \o <<13, 10>>, TRUE)

\* RequestWrapper::save_uploaded_file: the content is written to
\* static/<uuid>[.<extension>] and described by a FileInfo
save_uploaded_file(part, uuid) ==
  LET extension == IF part.filename = "a.txt" THEN "txt" ELSE ""
      unique_filename == <<uuid, extension>>
  IN [file |-> [path |-> <<"static", unique_filename>>, content |-> PartContent(part)],
      info |-> [original_name |-> part.filename, filename |-> unique_filename,
                path |-> <<"static", unique_filename>>,
                size |-> Len(PartContent(part))]]

\* DetachedRequestWrapper::parse_multipart_static: a file part is described
\* as static/static_mode_<original name>; nothing is written
parse_multipart_static(part) ==
  [original_name |-> part.filename, filename |-> <<"static_mode", part.filename>>,
   path |-> <<"static", <<"static_mode", part.filename>> >>,
   size |-> Len(PartContent(part))]

\* the form data of a multipart body with one file part is computed: lazily by
\* get_form_data of a RequestWrapper, or in new_detached for a detached
\* request; Uuid::new_v4() is a name no file has yet
FormData(kind, part) ==
  /\ Len(form) < MaxUploads
  /\ IF kind = "wrapper"
     THEN LET saved == save_uploaded_file(part, Cardinality(files) + 1)
          IN /\ files' = files \cup {saved.file}
             /\ form' = Append(form, [kind |-> kind, part |-> part, info |-> saved.info])
     ELSE /\ files' = files
          /\ form' = Append(form, [kind |-> kind, part |-> part,
                                    info |-> parse_multipart_static(part)])
  /\ objects' = objects
  /\ UNCHANGED <<routerVars, reqVars, callVars>>

(***************************************************************************)
(* request.rs: the body readers of one request object and their caches.    *)
(***************************************************************************)
\* the bodies that arrive: multipart/form-data with one file part, or the JSON
\* text {} sent as application/json (no part name)
Bodies == FileParts \cup {[name |-> "", filename |-> "", bytes |-> <<123, 125>>]}

\* faulty variant of CellFilled: the initialiser runs on every read
CellNeverFilled(cell) == FALSE

\* OnceCell::get_or_init: the initialiser runs only while the cell is empty
CellFilled(cell) == cell # <<>>

\* RequestWrapper::new_with_params: both cells empty. new_detached: the
\* caches are computed here, cached_json for a JSON content type, cached
\* form data for a form content type (parse_multipart_static writes no file)
NewRequestObject(kind, body) ==
  /\ objects = <<>>
  /\ objects' =
       << [kind |-> kind, body |-> body,
           parsed_form_data |->
             IF kind = "wrapper" THEN <<>>
             ELSE << IF body.name = "" THEN <<>>
                     ELSE << [key |-> body.name, value |-> parse_multipart_static(body)] >> >>,
           parsed_json |->
             IF kind = "wrapper" THEN <<>>
             ELSE << IF body.name = "" THEN <<ObjEmpty>> ELSE <<>> >>,
           form_parses |-> IF kind = "wrapper" THEN 0 ELSE 1,
           json_parses |-> IF kind = "wrapper" THEN 0 ELSE 1,
           reads |-> <<>>] >>
  /\ UNCHANGED <<files, form>>
  /\ UNCHANGED <<routerVars, reqVars, callVars>>

\* get_form_data, get_form_value(key) (RequestWrapper: get_or_init with
\* parse_form_data_internal, which saves a file part) and get_form_data_async,
\* get_form_value_async(key) (detached: the cached value or the empty object);
\* key "" asks for the whole form
GetFormData(key) ==
  /\ objects # <<>>
  /\ Len(objects[1].reads) < MaxReads
  /\ LET o == objects[1]
         parse == ~CellFilled(o.parsed_form_data)
         saved == save_uploaded_file(o.body, Cardinality(files) + 1)
         value == IF ~parse THEN o.parsed_form_data[1]
                  ELSE IF o.body.name = "" THEN <<>>
                  ELSE << [key |-> o.body.name, value |-> saved.info] >>
         field == {i \in 1..Len(value) : value[i].key = key}
     IN /\ files' = IF parse /\ o.body.name # "" THEN files \cup {saved.file} ELSE files
        /\ objects' =
             << [o EXCEPT !.parsed_form_data = <<value>>,
                          !.form_parses = IF parse THEN @ + 1 ELSE @,
                          !.reads = Append(@, [getter |-> "form", key |-> key,
                                               value |-> IF key = "" THEN value
                                                         ELSE [i \in 1..Cardinality(field) |->
                                                                 value[CHOOSE j \in field : TRUE].value]])] >>
  /\ UNCHANGED form
  /\ UNCHANGED <<routerVars, reqVars, callVars>>

\* get_body_json: RequestWrapper parses the body text on the first read
\* (get_or_init), whatever the content type; detached returns cached_json
GetBodyJson ==
  /\ objects # <<>>
  /\ Len(objects[1].reads) < MaxReads
  /\ LET o == objects[1]
         parse == ~CellFilled(o.parsed_json)
         value == IF ~parse THEN o.parsed_json[1]
                  ELSE IF o.body.name = "" THEN <<ObjEmpty>> ELSE <<>>
     IN objects' =
          << [o EXCEPT !.parsed_json = <<value>>,
                       !.json_parses = IF parse THEN @ + 1 ELSE @,
                       !.reads = Append(@, [getter |-> "json", key |-> "", value |-> value])] >>
  /\ UNCHANGED <<files, form>>
  /\ UNCHANGED <<routerVars, reqVars, callVars>>

(***************************************************************************)
(* Specifications.                                                         *)
(***************************************************************************)
InitRequests(ids) ==
  /\ pc = [r \in ids |-> "idle"]
  /\ rq = [r \in ids |-> NoRq]
  /\ chan = [r \in ids |-> NoChan]
  /\ wrap = [r \in ids |-> NoWrap]
  /\ sendRet = [r \in ids |-> <<>>]
  /\ statusRet = [r \in ids |-> NoStatusRet]
  /\ elapsed = [r \in ids |-> 0]
  /\ http = [r \in ids |-> <<>>]
  /\ files = {}
  /\ form = <<>>
  /\ objects = <<>>
  /\ calls = [c \in Callers |-> NoCallState]

\* the process after load: empty registry (lazy_static GLOBAL_DATA), snapshot
\* cell not written, empty caches, no server
Init ==
  /\ writer = EmptyRoutes
  /\ regCalls = 0
  /\ ret = [op |-> "none", ok |-> TRUE]
  /\ reader = UninitReader
  /\ cache = EmptyCache
  /\ serverUp = FALSE
  /\ spawned = 0
  /\ handle = FALSE
  /\ stop = NoStop
  /\ InitRequests(1..MaxReq)

\* the routing side: the host registers, cleans up and starts servers while
\* requests are looked up and handed to their callbacks
Next ==
  \/ \E m \in RegMethods, pat \in Patterns : Register(m, pat)
  \/ Cleanup
  \/ \E bindOk \in BOOLEAN : Start(bindOk)
  \/ \E bindOk \in BOOLEAN : ServerTask(bindOk)
  \/ \E path \in Paths, m \in ReqMethods : CachedLookup(path, m)
  \/ \E r \in Requests, m \in ReqMethods, path \in Paths : Lookup(r, m, path)
  \/ \E r \in Requests : Invoke(r, "Ok")

Spec == Init /\ [][Next]_vars

\* A started server with GET /hello and GET /users/:id registered: the state
\* after get_async("/hello", h1), get_async("/users/:id", h2), start().
DispatchRoutes ==
  [EmptyRoutes EXCEPT !["GET"] = [p \in Patterns |-> IF p = PatHello THEN 1 ELSE 2]]

DispatchInit ==
  /\ writer = DispatchRoutes
  /\ regCalls = 2
  /\ ret = [op |-> "start", ok |-> TRUE]
  /\ reader = write_reader(as_reader_type(DispatchRoutes))
  /\ cache = EmptyCache
  /\ serverUp = TRUE
  /\ spawned = 0
  /\ handle = TRUE
  /\ stop = NoStop
  /\ InitRequests({1})

\* one request through the dispatcher, with everything the callback can do
DispatchNext ==
  \/ \E r \in Requests, m \in ReqMethods, path \in DispatchPaths : Lookup(r, m, path)
  \/ \E r \in Requests, status \in BridgeStatus : Invoke(r, status)
  \/ \E r \in Requests, code \in StatusInputs : SetStatus(r, code)
  \/ \E r \in Requests, h \in HeaderInputs : AddHeader(r, h)
  \/ \E r \in Requests, call \in SendCalls : TerminalSend(r, call)
  \/ \E r \in Requests : DropRequest(r)
  \/ Tick
  \/ \E r \in Requests : Respond(r)
  \/ \E r \in Requests : RespondDropped(r)
  \/ \E r \in Requests : RespondTimeout(r)

SpecDispatch == DispatchInit /\ [][DispatchNext]_vars

\* The same, with the scheduling the runtime gives: a woken dispatcher task is
\* polled (tokio), the synchronous part of a dispatch runs on, time passes.
DispatchRequests == {1}

DispatchFairness ==
  /\ WF_vars(Tick)
  /\ \A r \in DispatchRequests :
       /\ WF_vars(\E status \in BridgeStatus : Invoke(r, status))
       /\ WF_vars(Respond(r))
       /\ WF_vars(RespondDropped(r))
       /\ WF_vars(RespondTimeout(r))

SpecDispatchFair == SpecDispatch /\ DispatchFairness

\* A started server with the same two routes that is stopped while requests
\* are being dispatched; two requests, so that a stop overlaps with dispatches
\* at different stages.
StopRequests == {1, 2}

StopInit ==
  /\ writer = DispatchRoutes
  /\ regCalls = 2
  /\ ret = [op |-> "start", ok |-> TRUE]
  /\ reader = write_reader(as_reader_type(DispatchRoutes))
  /\ cache = EmptyCache
  /\ serverUp = TRUE
  /\ spawned = 0
  /\ handle = TRUE
  /\ stop = NoStop
  /\ InitRequests(StopRequests)

StopNext ==
  \/ \E r \in Requests, path \in {PathHello, PathNope} : Lookup(r, "GET", path)
  \/ \E r \in Requests : Invoke(r, "Ok")
  \/ \E r \in Requests : TerminalSend(r, [op |-> "send_text", arg |-> "a"])
  \/ \E r \in Requests : DropRequest(r)
  \/ Tick
  \/ \E r \in Requests : Respond(r)
  \/ \E r \in Requests : RespondDropped(r)
  \/ \E r \in Requests : RespondTimeout(r)
  \/ Stop
  \/ StopComplete

SpecStop == StopInit /\ [][StopNext]_vars

\* A started server with GET /hello, or with GET /hello and GET /users/:id,
\* while the host goes on registering, cleans up and starts a further server:
\* the snapshot cell is overwritten while requests are being dispatched.
\* register and cleanup wait for the writer lock that initialise_reader holds.
RaceInit ==
  /\ \E n \in 1..2 :
       /\ writer = [EmptyRoutes EXCEPT !["GET"] =
                      [p \in Patterns |-> IF p = PatHello THEN 1
                                          ELSE IF n = 2 THEN 2 ELSE NoHandle]]
       /\ regCalls = n
  /\ ret = [op |-> "start", ok |-> TRUE]
  /\ reader = write_reader(as_reader_type(writer))
  /\ cache = EmptyCache
  /\ serverUp = TRUE
  /\ spawned = 0
  /\ handle = TRUE
  /\ stop = NoStop
  /\ InitRequests({1})

RaceNext ==
  \/ \E m \in RegMethods, pat \in Patterns : MutexFree /\ Register(m, pat)
  \/ MutexFree /\ Cleanup
  \/ MutexFree /\ Republish
  \/ RepublishDone
  \/ \E c \in Callers, m \in RegMethods, pat \in Patterns : RegCall(c, m, pat)
  \/ \E c \in Callers : RegLock(c)
  \/ \E c \in Callers : RegInsert(c)
  \/ \E c \in Callers : RegClear(c)
  \/ \E r \in Requests, m \in ReqMethods, path \in Paths : Lookup(r, m, path)
  \/ \E r \in Requests : Invoke(r, "Ok")

SpecRace == RaceInit /\ [][RaceNext]_vars

\* A started server with GET /hello, GET /users/:id and POST /users/:id whose
\* GET cache is full, or one entry short of full, after cached lookups of
\* /users/1, /users/2, ... in this order; cached lookups go on for the oldest
\* and the newest of these paths and for a path not yet seen.
UserPath(n) == <<"users", ToString(n)>>

LruPaths == {UserPath(1), UserPath(CACHE_CAPACITY), UserPath(CACHE_CAPACITY + 1)}

LruInit ==
  /\ writer = [DispatchRoutes EXCEPT !["POST"][PatUserId] = 3]
  /\ regCalls = 3
  /\ ret = [op |-> "start", ok |-> TRUE]
  /\ reader = write_reader(as_reader_type(writer))
  /\ \E n \in {CACHE_CAPACITY - 1, CACHE_CAPACITY} :
       cache = [EmptyCache EXCEPT !["GET"] =
                  [i \in 1..n |->
                     [route |-> UserPath(i), callback |-> 2,
                      params |-> ParamsToMap(<< <<"id", ToString(i)>> >>)]]]
  /\ serverUp = TRUE
  /\ spawned = 0
  /\ handle = TRUE
  /\ stop = NoStop
  /\ InitRequests({1})

LruNext == \E path \in LruPaths, m \in RegMethods : CachedLookup(path, m)

SpecLru == LruInit /\ [][LruNext]_vars

\* The routing side with cached lookups only: registry, snapshot and caches.
CacheNext ==
  \/ \E m \in RegMethods, pat \in Patterns : Register(m, pat)
  \/ Cleanup
  \/ \E bindOk \in BOOLEAN : Start(bindOk)
  \/ \E bindOk \in BOOLEAN : ServerTask(bindOk)
  \/ \E path \in Paths, m \in ReqMethods : CachedLookup(path, m)

SpecCache == Init /\ [][CacheNext]_vars

\* The life of the server: the host registers, starts and stops, the spawned
\* task binds; stop() calls may overlap.
LifeNext ==
  \/ \E m \in RegMethods, pat \in Patterns : Register(m, pat)
  \/ \E bindOk \in BOOLEAN : Start(bindOk)
  \/ \E bindOk \in BOOLEAN : ServerTask(bindOk)
  \/ Stop
  \/ StopComplete

SpecLife == Init /\ [][LifeNext]_vars

\* Host threads register concurrently in the process after load.
RegNext ==
  \/ \E c \in Callers, m \in RegMethods, pat \in Patterns : RegCall(c, m, pat)
  \/ \E c \in Callers : RegLock(c)
  \/ \E c \in Callers : RegInsert(c)
  \/ \E c \in Callers : RegClear(c)

SpecReg == Init /\ [][RegNext]_vars

\* The routing operations of concurrent threads at the grain of their locks:
\* registrations, cleanups, publications and cached lookups on a started
\* server.
LockNext ==
  \/ \E c \in Callers, m \in RegMethods, pat \in Patterns : RegCall(c, m, pat)
  \/ \E c \in Callers : RegLock(c)
  \/ \E c \in Callers : RegInsert(c)
  \/ \E c \in Callers : RegClear(c)
  \/ MutexFree /\ Cleanup
  \/ MutexFree /\ Republish
  \/ RepublishDone
  \/ \E c \in Callers, path \in Paths, m \in RegMethods : CachedLookupMatch(c, path, m)
  \/ \E c \in Callers : CachedLookupPut(c)

SpecLock == RaceInit /\ [][LockNext]_vars

\* Scheduling of the lock steps. A thread inside a critical section runs on
\* (weak fairness of the steps that need no lock); parking_lot hands a mutex
\* that is released again and again to a waiter in the end (eventual
\* fairness), so the acquisition in add_new_route is strongly fair.
LockFairness ==
  /\ SF_vars(\E c \in Callers : RegLock(c))
  /\ WF_vars(\E c \in Callers : RegInsert(c))
  /\ WF_vars(\E c \in Callers : RegClear(c))
  /\ WF_vars(\E c \in Callers : CachedLookupPut(c))
  /\ WF_vars(RepublishDone)

\* A server runs with GET /hello; one more registration can be made.
LockInit ==
  /\ writer = [EmptyRoutes EXCEPT !["GET"] =
                 [p \in Patterns |-> IF p = PatHello THEN 1 ELSE NoHandle]]
  /\ regCalls = MaxRegs - 1
  /\ ret = [op |-> "start", ok |-> TRUE]
  /\ reader = write_reader(as_reader_type(writer))
  /\ cache = EmptyCache
  /\ serverUp = TRUE
  /\ spawned = 0
  /\ handle = TRUE
  /\ stop = NoStop
  /\ InitRequests({1})

\* The lock steps with every call on the GET trie and the GET cache, the one
\* pair of locks that all threads then contend for.
LockFairNext ==
  \/ \E c \in Callers, pat \in Patterns : RegCall(c, "GET", pat)
  \/ \E c \in Callers : RegLock(c)
  \/ \E c \in Callers : RegInsert(c)
  \/ \E c \in Callers : RegClear(c)
  \/ MutexFree /\ Cleanup
  \/ MutexFree /\ Republish
  \/ RepublishDone
  \/ \E c \in Callers, path \in {PathHello, PathNope} : CachedLookupMatch(c, path, "GET")
  \/ \E c \in Callers : CachedLookupPut(c)

SpecLockFair == LockInit /\ [][LockFairNext]_vars /\ LockFairness

\* One request whose callback starts its terminal sends without awaiting them.
SendRaceNext ==
  \/ \E r \in Requests, path \in {PathHello, PathNope} : Lookup(r, "GET", path)
  \/ \E r \in Requests : Invoke(r, "Ok")
  \/ \E r \in Requests, call \in SendCalls : SendAsyncBegin(r, call)
  \/ \E r \in Requests, i \in 1..MaxSends : SendAsyncEnd(r, i)
  \/ Tick
  \/ \E r \in Requests : Respond(r)
  \/ \E r \in Requests : RespondTimeout(r)

SpecSendRace == DispatchInit /\ [][SendRaceNext]_vars

\* One request object of either kind and the callback's reads of its body.
OnceNext ==
  \/ \E kind \in {"wrapper", "detached"}, body \in Bodies : NewRequestObject(kind, body)
  \/ \E key \in {"", "f", "g"} : GetFormData(key)
  \/ GetBodyJson

SpecOnce == DispatchInit /\ [][OnceNext]_vars

\* Multipart bodies with a file part arrive at the started server and their
\* form data is computed.
FormNext == \E kind \in {"wrapper", "detached"}, part \in FileParts : FormData(kind, part)

SpecForm == DispatchInit /\ [][FormNext]_vars

(***************************************************************************)
(* Claims.                                                                 *)
(***************************************************************************)
\* what matching a path against the writer registry returns
WriterMatch(path, m) ==
  IF m \in Methods THEN RouterAt(writer[m], path).value ELSE NoHandle

RegisterOk == [op |-> "register", ok |-> TRUE]

\* C1: a lookup that starts after a successful register has returned finds
\* what matching the path against the writer registry finds.
C1_RegisterIsPublished ==
  [][\A r \in Requests, m \in ReqMethods, path \in Paths :
       (ret = RegisterOk /\ Lookup(r, m, path))
         => rq'[r].callback = WriterMatch(path, m)]_vars

\* C2: once cleanup has returned, the writer tries are empty, the published
\* snapshot is empty and the caches are empty, so no lookup finds a route.
C2_CleanupEmptiesEverything ==
  ret.op = "cleanup" =>
    /\ writer = EmptyRoutes
    /\ cache = EmptyCache
    /\ reader.init => reader.routes = EmptyRoutes
    /\ reader.init => \A m \in ReqMethods, path \in Paths :
                        get_route(reader, path, m) = NoHandle

\* C3: a register of a (method, pattern) that is already in the writer
\* registry returns an error and leaves the registry unchanged, and an entry
\* of the registry never changes to another callback (no silent overwrite).
C3_RouteUniqueness ==
  /\ [][\A m \in RegMethods, pat \in Patterns :
          (Register(m, pat) /\ writer[m][pat] # NoHandle)
            => (ret' = [op |-> "register", ok |-> FALSE] /\ writer' = writer)]_vars
  /\ [][\A m \in Methods, pat \in Patterns :
          (writer[m][pat] # NoHandle /\ writer'[m][pat] # NoHandle)
            => writer'[m][pat] = writer[m][pat]]_vars

C3_Witness ==
  /\ ret = [op |-> "register", ok |-> FALSE]
  /\ \E m \in RegMethods, pat \in Patterns : writer[m][pat] = 1

\* C4: a request never has more than one HTTP response, its dispatch is over
\* exactly when it has one, and every accepted request ends up with one.
C4_ExactlyOneResponse ==
  /\ [](\A r \in DispatchRequests :
          /\ Len(http[r]) <= 1
          /\ pc[r] = "done" <=> Len(http[r]) = 1)
  /\ \A r \in DispatchRequests : (pc[r] # "idle") ~> (Len(http[r]) = 1)

C4_Witness ==
  \E r \in Requests :
    /\ pc[r] = "done"
    /\ Len(sendRet[r]) = 2
    /\ wrap[r].state = "dropped"
    /\ http[r] = <<into_http_response(chan[r].value)>>

\* C5: of the terminal sends made on one request object the first succeeds and
\* every later one fails as already sent; the record on the channel, and the
\* response the dispatcher writes from it, is the one of the first send with
\* the status and headers the request object had then.
C5_FirstSendWins ==
  \A r \in Requests :
    sendRet[r] # <<>> =>
      LET first == BuildResponse(wrap[r], InnerOf(sendRet[r][1].call))
      IN /\ sendRet[r][1].result = "ok"
         /\ \A i \in 2..Len(sendRet[r]) : sendRet[r][i].result = "already_sent"
         /\ chan[r].value # NoValue => chan[r].value = first
         /\ (pc[r] = "done" /\ chan[r].value # NoValue)
              => http[r] = <<into_http_response(first)>>

C5_Witness ==
  \E r \in Requests :
    /\ pc[r] = "done"
    /\ Len(sendRet[r]) = 2
    /\ sendRet[r][1].call = [op |-> "send_text", arg |-> "a"]
    /\ sendRet[r][1].result = "ok"
    /\ sendRet[r][2].result = "already_sent"
    /\ http[r][1].body = "a"
    /\ http[r][1].content_type = "text/plain; charset=utf-8"

\* the response budget being T seconds: 408 is written only once T seconds
\* have passed with nothing sent, and a response sent before that is the one
\* written
BudgetIs(T) ==
  \A r \in Requests :
    /\ (pc[r] = "done" /\ http[r] = <<TimeoutResponse>>)
         => (elapsed[r] >= T /\ chan[r].value = NoValue)
    /\ (wrap[r].sent /\ elapsed[r] < T)
         => /\ chan[r].value # NoValue
            /\ pc[r] = "done" => http[r] = <<into_http_response(chan[r].value)>>

C7_TimeoutAnswers ==
  /\ \A r \in DispatchRequests : (pc[r] = "await") ~> (pc[r] = "done")
  /\ [](\A r \in DispatchRequests :
          (pc[r] = "done" /\ chan[r].tx = "live") => http[r] = <<TimeoutResponse>>)

C7_Witness ==
  \E r \in Requests :
    /\ pc[r] = "done"
    /\ wrap[r].state = "alive"
    /\ ~wrap[r].sent
    /\ http[r] = <<TimeoutResponse>>

\* C8: when the request object was dropped unsent while the dispatcher waits,
\* the dispatcher can answer at once, whatever time has passed, and the answer
\* it gives is the 500 "did not send response".
C8_DroppedAnswers500 ==
  /\ [](\A r \in Requests :
          (pc[r] = "await" /\ wrap[r].state = "dropped" /\ ~wrap[r].sent)
            => ENABLED RespondDropped(r))
  /\ [][\A r \in Requests :
          (pc[r] = "await" /\ wrap[r].state = "dropped" /\ ~wrap[r].sent
             /\ pc'[r] = "done")
            => http'[r] = <<DroppedResponse>>]_vars

C8_Witness ==
  \E r \in Requests :
    /\ pc[r] = "done"
    /\ elapsed[r] < TIMEOUT_SECS
    /\ wrap[r].state = "dropped"
    /\ http[r] = <<DroppedResponse>>

\* C9: after the dispatcher has answered 408, the callback's first terminal
\* send returns success, its record is not on the channel, and the request
\* keeps its single 408 response.
C9_LateSendDiscarded ==
  \A r \in Requests :
    (pc[r] = "done" /\ Len(http[r]) >= 1 /\ http[r][1] = TimeoutResponse
       /\ sendRet[r] # <<>>)
      => /\ sendRet[r][1].result = "ok"
         /\ chan[r].value = NoValue
         /\ http[r] = <<TimeoutResponse>>

C9_Witness ==
  \E r \in Requests :
    /\ pc[r] = "done"
    /\ http[r] = <<TimeoutResponse>>
    /\ Len(sendRet[r]) >= 1
    /\ wrap[r].sent

\* C10: a lookup that finds no route answers 404 with the route-not-found
\* body naming the path and ends the dispatch; a request answered that way has
\* no channel, no request object and no callback.
C10_MissIs404Only ==
  /\ [][\A r \in Requests, m \in ReqMethods, path \in Paths :
          (Lookup(r, m, path) /\ get_route(reader, path, m) = NoHandle)
            => /\ pc'[r] = "done"
               /\ Len(http'[r]) = 1
               /\ http'[r][1].status = 404
               /\ http'[r][1].content_type = "application/json"
               /\ http'[r][1].body = <<"Route not found", path>>]_vars
  /\ [](\A r \in Requests :
          (pc[r] = "done" /\ rq[r].callback = NoHandle)
            => /\ chan[r] = NoChan
               /\ wrap[r] = NoWrap
               /\ sendRet[r] = <<>>
               /\ Len(http[r]) = 1 /\ http[r][1].status = 404)

C10_Witness ==
  \E r \in Requests :
    /\ pc[r] = "done"
    /\ rq[r].path = PathNope
    /\ reader.routes["GET"][PatHello] # NoHandle
    /\ http[r] = <<NotFoundResponse(PathNope)>>

\* C11: a request whose method is none of GET, POST, PUT, PATCH, DELETE is
\* answered 404 by the lookup, whatever the path and the registered routes, no
\* callback is invoked for it, and neither the dispatcher's lookup nor a cached
\* lookup with such a method reads or changes a match cache.
C11_OtherMethodNotFound ==
  /\ [][\A r \in Requests, m \in ReqMethods \ Methods, path \in Paths :
          Lookup(r, m, path)
            => /\ pc'[r] = "done"
               /\ rq'[r].callback = NoHandle
               /\ Len(http'[r]) = 1 /\ http'[r][1].status = 404
               /\ cache' = cache]_vars
  /\ [][\A m \in ReqMethods \ Methods, path \in Paths :
          CachedLookup(path, m) => cache' = cache]_vars
  /\ [](\A r \in Requests :
          (pc[r] # "idle" /\ rq[r].method \notin Methods)
            => /\ pc[r] = "done"
               /\ chan[r] = NoChan /\ wrap[r] = NoWrap /\ sendRet[r] = <<>>
               /\ Len(http[r]) = 1 /\ http[r][1].status = 404)

C11_Witness ==
  \E r \in Requests :
    /\ pc[r] = "done"
    /\ rq[r].method = "HEAD"
    /\ rq[r].path = PathHello
    /\ reader.init /\ reader.routes["GET"][PatHello] # NoHandle
    /\ http[r] = <<NotFoundResponse(PathHello)>>

\* the status codes the pure set_status_code is probed with: both ends of the
\* u16 range and both sides of each end of the accepted range
StatusProbe == {0, 99, 100, 404, 999, 1000, 65535}

\* C12: once a terminal send has been made on a request object, status(code)
\* returns failure and status(code) and add_header(name, value) change neither
\* the stored override, nor the accumulated headers, nor the record that was
\* handed to the channel, nor the response written from it.
C12_NoOpsAfterSend ==
  /\ [][\A r \in Requests, code \in StatusInputs :
          (wrap[r].sent /\ SetStatus(r, code))
            => /\ ~statusRet'[r].ok
               /\ wrap'[r] = wrap[r]
               /\ chan'[r] = chan[r]
               /\ http'[r] = http[r]]_vars
  /\ [][\A r \in Requests, h \in HeaderInputs :
          (wrap[r].sent /\ AddHeader(r, h))
            => /\ wrap'[r] = wrap[r]
               /\ chan'[r] = chan[r]
               /\ http'[r] = http[r]]_vars
  /\ [](\A r \in Requests :
          wrap[r].sent
            => /\ \A code \in StatusProbe :
                    set_status_code(wrap[r], code) = [ok |-> FALSE, wrap |-> wrap[r]]
               /\ \A h \in HeaderInputs : add_header(wrap[r], h) = wrap[r])

C12_Witness ==
  \E r \in Requests :
    /\ statusRet[r] = [called |-> TRUE, ok |-> FALSE, after_send |-> TRUE]
    /\ wrap[r].state = "alive" /\ wrap[r].sent
    /\ wrap[r].status_code = 404
    /\ wrap[r].headers = << <<"x-a", "1">> >>
    /\ chan[r].value.status_code = 404
    /\ chan[r].value.headers = SomeHeaders(<< <<"x-a", "1">> >>)

\* C13: before any send, status(code) returns success and records code as the
\* override exactly when 100 <= code < 1000; for every other code it returns
\* failure and the override recorded before stays.
C13_StatusRange ==
  /\ [][\A r \in Requests, code \in StatusInputs :
          (~wrap[r].sent /\ SetStatus(r, code))
            => IF code >= 100 /\ code < 1000
               THEN statusRet'[r].ok /\ wrap'[r].status_code = code
               ELSE /\ ~statusRet'[r].ok
                    /\ wrap'[r].status_code = wrap[r].status_code]_vars
  /\ [](\A r \in Requests :
          (wrap[r].state = "alive" /\ ~wrap[r].sent)
            => \A code \in StatusProbe :
                 LET res == set_status_code(wrap[r], code)
                 IN IF code >= 100 /\ code < 1000
                    THEN res.ok /\ res.wrap.status_code = code
                    ELSE ~res.ok /\ res.wrap = wrap[r])

C13_Witness ==
  \E r \in Requests :
    /\ statusRet[r] = [called |-> TRUE, ok |-> FALSE, after_send |-> FALSE]
    /\ wrap[r].state = "alive" /\ ~wrap[r].sent
    /\ wrap[r].status_code = 404

\* the variants whose response is built from the record's status and headers
BuiltTags == {"Text", "Json", "Raw", "EmptyString"}

C15_CustomHeadersAppended ==
  \A r \in Requests :
    (pc[r] = "done" /\ chan[r].value # NoValue)
      => /\ Len(http[r]) = 1
         /\ http[r][1].headers = AppliedHeaders(wrap[r].headers)

StartFailed == [op |-> "start", ok |-> FALSE]

\* C16: a start() whose probe bind fails returns the error within the call and
\* changes nothing else: the snapshot cell, the caches, the writer registry,
\* the spawned server tasks, the running server and the stored server handle
\* are as they were.
C16_BindFailureChangesNothing ==
  [][Start(FALSE)
       => /\ ret' = StartFailed
          /\ reader' = reader
          /\ cache' = cache
          /\ writer' = writer
          /\ spawned' = spawned
          /\ serverUp' = serverUp
          /\ handle' = handle]_vars

C16_Witness ==
  /\ ret = StartFailed
  /\ serverUp /\ handle /\ spawned = 0
  /\ cache["GET"] # <<>>
  /\ reader.routes # as_reader_type(writer)

\* C17: a successful start() publishes a snapshot equal to the writer registry
\* of that moment: for every registered (method, pattern, callback) a
\* dispatcher lookup of a path that matches the pattern (and no registered
\* pattern of higher rank) gives that callback, a path that matches no
\* registered pattern gives no match, and every lookup agrees with matching
\* against the writer registry.
C17_StartPublishesWriter ==
  [][Start(TRUE)
       => /\ reader'.init
          /\ reader'.routes = writer
          /\ \A m \in Methods, path \in DispatchPaths :
               /\ get_route(reader', path, m) = WriterMatch(path, m)
               /\ \A pat \in Patterns :
                    ( /\ writer[m][pat] # NoHandle
                      /\ PatMatches(pat, path)
                      /\ \A q \in Patterns :
                           (writer[m][q] # NoHandle /\ PatMatches(q, path))
                             => ~Outranks(q, pat) )
                      => get_route(reader', path, m) = writer[m][pat]
               /\ (\A pat \in Patterns :
                     writer[m][pat] = NoHandle \/ ~PatMatches(pat, path))
                    => /\ get_route(reader', path, m) = NoHandle
                       /\ ~get_params(reader', path, m).some]_vars

C17_Witness ==
  \E r \in Requests :
    /\ ret = [op |-> "start", ok |-> TRUE]
    /\ writer["POST"][PatHello] # NoHandle
    /\ writer["GET"][PatUserId] # NoHandle
    /\ reader.init /\ reader.routes = writer
    /\ pc[r] = "matched"
    /\ rq[r].path = PathUser42
    /\ rq[r].callback = writer["GET"][PatUserId]

\* C18: stop() returns only when every dispatch that was in flight has written
\* its HTTP response (the callback's, the 500 or the 408), and no request is
\* ever dropped unanswered by the shutdown.
C18_StopWaitsForInFlight ==
  /\ [][StopComplete
          => \A r \in Requests :
               pc[r] # "idle" => (pc[r] = "done" /\ Len(http[r]) = 1)]_vars
  /\ [](\A r \in Requests : pc[r] # "cut")
  /\ [](\A r \in Requests :
          (stop.active /\ InFlight(r)) => stop.elapsed < SHUTDOWN_TIMEOUT_SECS)

C18_Witness ==
  /\ ret = [op |-> "stop", ok |-> TRUE]
  /\ ~stop.active /\ stop.elapsed = TIMEOUT_SECS
  /\ \A r \in Requests : pc[r] = "done"
  /\ \E r \in Requests : http[r] = <<TimeoutResponse>>
  /\ \E r \in Requests : Len(http[r]) = 1 /\ http[r][1].status = 200

\* the request object as it was right after construction
Constructed(r) ==
  NewWrap(HttpRequestOf(rq[r].method, rq[r].path), BodyOf(rq[r].path), rq[r].params)

\* C19: status, add_header and the terminal sends leave every getter of the
\* request object as it was: whatever sequence of them has been called, each
\* getter returns what it returned right after construction.
C19_GettersUnchanged ==
  /\ [](\A r \in Requests :
          wrap[r].state # "none" => Getters(wrap[r]) = Getters(Constructed(r)))
  /\ [][\A r \in Requests :
          ( \/ \E code \in StatusInputs : SetStatus(r, code)
            \/ \E h \in HeaderInputs : AddHeader(r, h)
            \/ \E call \in SendCalls : TerminalSend(r, call) )
            => Getters(wrap'[r]) = Getters(wrap[r])]_vars

C19_Witness ==
  \E r \in Requests :
    /\ wrap[r].state = "alive" /\ wrap[r].sent
    /\ wrap[r].status_code = 404
    /\ wrap[r].headers = << <<"x-a", "1">> >>
    /\ Len(sendRet[r]) = 2
    /\ statusRet[r].after_send
    /\ Getters(wrap[r]).path = PathUser42
    /\ Getters(wrap[r]).query_params = [n \in {"a"} |-> "1"]
    /\ Getters(wrap[r]).header["content-type"] = <<"application/json">>
    /\ Getters(wrap[r]).header["x-a"] = <<>>
    /\ Getters(wrap[r]).body_json = <<ObjEmpty>>
    /\ Getters(wrap[r]).path_param["id"] = <<"42">>

\* C20: a request is matched by GET /users/:id exactly when its path is
\* /users/ followed by one non-empty segment without a slash; the callback
\* then reads path_params = {id: that segment} (GET /users/42 gives {id: 42}).
\* /users, /users/ and /users/42/x are not matched.
C20_ParamTakesOneSegment ==
  /\ [][\A r \in Requests, path \in DispatchPaths :
          Lookup(r, "GET", path)
            => ( rq'[r].callback = reader.routes["GET"][PatUserId]
                   <=> (Len(path) = 2 /\ path[1] = "users" /\ path[2] # "") )]_vars
  /\ [](\A r \in Requests :
          (wrap[r].state # "none"
             /\ rq[r].callback = reader.routes["GET"][PatUserId])
            => /\ Len(rq[r].path) = 2
               /\ Getters(wrap[r]).path_params = [n \in {"id"} |-> rq[r].path[2]]
               /\ Getters(wrap[r]).path_param["id"] = <<rq[r].path[2]>>)
  /\ [](\A r \in Requests :
          (pc[r] # "idle" /\ rq[r].method = "GET"
             /\ rq[r].path \in {PathUsers, PathUsersSlash, PathUser42X})
            => (rq[r].callback = NoHandle /\ wrap[r] = NoWrap))

C20_Witness ==
  \E r \in Requests :
    /\ pc[r] = "await"
    /\ rq[r].method = "GET" /\ rq[r].path = PathUser42
    /\ rq[r].callback = reader.routes["GET"][PatUserId]
    /\ wrap[r].path_params = [n \in {"id"} |-> "42"]

\* C21: for every file part whose form data a detached request has computed, a
\* file exists under static/ at the path of the part's descriptor, its name is
\* unique (no other descriptor has it) and keeps the original extension, and
\* its content is the bytes of the part.
C21_FilePartsAreSaved ==
  \A i \in 1..Len(form) :
    form[i].kind = "detached"
      => /\ \E f \in files :
              f.path = form[i].info.path /\ f.content = form[i].part.bytes
         /\ \A j \in 1..Len(form) : j # i => form[j].info.path # form[i].info.path

\* C22: whatever a lookup returns while a snapshot is being published is what
\* matching against the complete previous snapshot or against the complete new
\* snapshot returns.
C22_LookupSeesWholeSnapshot ==
  [][\A r \in Requests :
      pc[r] = "idle" /\ pc'[r] # "idle"
        => rq'[r].callback \in
             { get_route(write_reader(reader.old), rq'[r].path, rq'[r].method),
               get_route(write_reader(reader.routes), rq'[r].path, rq'[r].method) }]_vars

\* C23: the callback that the dispatch invokes through the reference its
\* lookup returned is the callback the reference designated at the lookup,
\* whatever was published or cleaned up in between.
C23_ReferenceStaysValid ==
  \A r \in Requests : pc[r] = "await" => rq[r].invoked = rq[r].callback

\* C24: the path params handed to the callback are the captures of the route
\* match that returned the callback, also when a snapshot is published during
\* the dispatch.
C24_ParamsOfTheSameMatch ==
  \A r \in Requests : pc[r] = "await" => rq[r].params = rq[r].captured

\* C25: a successful register and every cleanup leave all five caches empty,
\* and a cached lookup that finds the caches empty is resolved against the
\* published snapshot: what it stores is the match of the path in the snapshot.
C25_WritesClearCaches ==
  [][/\ ( \/ (\E m \in RegMethods, pat \in Patterns : Register(m, pat)) /\ ret' = RegisterOk
          \/ Cleanup )
          => cache' = EmptyCache
     /\ \A m \in Methods, path \in Paths :
          (cache = EmptyCache /\ CachedLookup(path, m))
            => LET found == RouterAt(reader.routes[m], path)
               IN cache' = [EmptyCache EXCEPT ![m] =
                              IF found.found
                              THEN << [route |-> path, callback |-> found.value,
                                       params |-> ParamsToMap(found.params)] >>
                              ELSE <<>>]]_vars

\* a second registration has succeeded after the snapshot was published, and
\* the caches are empty
C25_Witness ==
  /\ ret = RegisterOk
  /\ regCalls = 2
  /\ reader.init
  /\ reader.routes # writer
  /\ cache = EmptyCache

\* C26: the lookup of the dispatcher goes through the match cache: once a
\* request for (method, path) has been matched, the match is in the cache of
\* the method, from where later requests for the same path are answered.
C26_DispatchUsesCache ==
  [][\A r \in Requests, m \in ReqMethods, path \in Paths :
       (Lookup(r, m, path) /\ pc'[r] = "matched")
         => LruIndex(cache'[m], path) # 0]_vars

\* C27: only successful matches are cached: a cached lookup that returns no
\* match leaves the five caches as they are, and every entry of a method's
\* cache is the match of its path against a route of that method in the
\* snapshot.
C27_OnlyMatchesAreCached ==
  [][/\ \A m \in ReqMethods, path \in Paths :
          ( /\ CachedLookup(path, m)
            /\ \/ ~HasCache(m)
               \/ /\ LruIndex(cache[m], path) = 0
                  /\ ~RouterAt(reader.routes[m], path).found )
            => cache' = cache
     /\ \A m \in Methods : \A i \in 1..Len(cache'[m]) :
          LET e == cache'[m][i]
              found == RouterAt(reader'.routes[m], e.route)
          IN /\ found.found
             /\ e.callback = found.value
             /\ e.callback # NoHandle
             /\ e.params = ParamsToMap(found.params)]_vars

\* both routes of GET have been looked up and cached; no other cache holds
\* anything
C27_Witness ==
  /\ Len(cache["GET"]) = 2
  /\ \E i \in 1..2 : /\ cache["GET"][i].route = PathUser42
                      /\ cache["GET"][i].params = ParamsToMap(<< <<"id", "42">> >>)
  /\ \A m \in Methods \ {"GET"} : cache[m] = <<>>

\* C28: no cache ever holds more than 1000 entries; a cached lookup that
\* inserts a new path into a full cache removes exactly the least recently
\* used entry, and no cached lookup touches the cache of another method.
C28_CacheBounded ==
  [][/\ \A m \in Methods : Len(cache'[m]) <= 1000
     /\ \A m \in RegMethods, path \in LruPaths :
          CachedLookup(path, m)
            => /\ \A o \in Methods \ {m} : cache'[o] = cache[o]
               /\ (Len(cache[m]) = 1000 /\ LruIndex(cache[m], path) = 0)
                    => /\ Len(cache'[m]) = 1000
                       /\ {cache'[m][i] : i \in 1..1000}
                            = ({cache[m][i] : i \in 1..1000} \ {cache[m][1]})
                                \cup {[route |-> path, callback |-> 2,
                                       params |-> ParamsToMap(<< <<"id", path[2]>> >>)]}
                       /\ cache'[m][1] = cache[m][2]]_vars

\* the full GET cache has taken /users/1001 in and lost /users/1, its least
\* recently used entry
C28_Witness ==
  /\ Len(cache["GET"]) = CACHE_CAPACITY
  /\ LruIndex(cache["GET"], UserPath(CACHE_CAPACITY + 1)) # 0
  /\ LruIndex(cache["GET"], UserPath(1)) = 0
  /\ cache["GET"][1].route = UserPath(2)

\* C29: when the register calls that run concurrently have all returned, the
\* registry is what some serial order of them leaves: of the calls for one
\* (method, pattern) exactly one has succeeded and its callback is the one
\* registered (so every call for a pair of its own has succeeded and none is
\* lost), and nothing else is registered.
C29_RegistersSerialise ==
  (\A c \in Callers : calls[c].pc \in {"idle", "done"})
    => \A m \in Methods, pat \in Patterns :
         LET same == {c \in Callers : /\ calls[c].pc = "done"
                                      /\ calls[c].method = m /\ calls[c].pat = pat}
         IN IF same = {} THEN writer[m][pat] = NoHandle
            ELSE /\ Cardinality({c \in same : calls[c].ok}) = 1
                 /\ \E c \in same : calls[c].ok /\ writer[m][pat] = calls[c].function

\* two calls for the same pair have overlapped and returned: the first has
\* inserted, the second has found the route and failed, and the first has
\* returned Ok after that
C29_Witness ==
  /\ \A c \in {1, 2} : calls[c].pc = "done"
  /\ calls[1].method = calls[2].method /\ calls[1].pat = calls[2].pat
  /\ calls[1].ok /\ ~calls[2].ok
  /\ ret = RegisterOk

\* C30: a request whose submission the bridge has rejected is answered as a
\* request whose sender was dropped: with the 500 'callback did not send
\* response' answer, and not with the 408 of the timeout.
C30_RejectedAnswers500 ==
  \A r \in Requests :
    (rq[r].status \in BridgeStatus \ {"Ok"} /\ http[r] # <<>>)
      => http[r] = <<DroppedResponse>>

\* C35: a stop() called after start() has returned success finds the handle:
\* it does not return the 'server not running' error while the server of that
\* start() is running or about to run.
C35_StopFindsHandle ==
  [][(Stop /\ (serverUp \/ spawned > 0)) => ret' # [op |-> "stop", ok |-> FALSE]]_vars

\* C37: no lookup reads the snapshot cell before a snapshot was written to it:
\* whenever a server task is spawned or a server runs, and whenever a request
\* has been looked up, the cell is initialised.
C37_NoLookupBeforePublication ==
  (serverUp \/ spawned > 0 \/ \E r \in Requests : pc[r] # "idle") => reader.init

\* a request has been looked up and matched in the published snapshot
C37_Witness ==
  /\ reader.init /\ serverUp
  /\ \E r \in Requests : pc[r] = "matched" /\ rq[r].callback # NoHandle

C40_StartedServerListens ==
  [][spawned' < spawned => (serverUp' /\ handle')]_vars

\* C33: when cached lookups and publications have interleaved and all of them
\* have completed, every cached entry is the match of its path against the
\* published snapshot.
C33_NoStaleEntryAfterPublication ==
  (~reader.writing /\ \A c \in Callers : calls[c].pc \in {"idle", "done"})
    => \A m \in Methods : \A i \in 1..Len(cache[m]) :
         LET found == RouterAt(reader.routes[m], cache[m][i].route)
         IN /\ found.found
            /\ found.value = cache[m][i].callback
            /\ ParamsToMap(found.params) = cache[m][i].params

\* C31: a dispatcher lookup never waits for a writer, and a writer never waits
\* for a lookup: while a registration or a publication holds the writer mutex,
\* get_route and get_params of every request can run; a registration that
\* waits for the mutex can take it, and a cleanup can run, as soon as the mutex
\* is free, wherever the lookups of the requests are.
C31_LookupsNeverWait ==
  /\ \A r \in Requests :
       /\ (~MutexFree /\ serverUp /\ pc[r] = "idle")
            => \A m \in ReqMethods, path \in Paths : ENABLED Lookup(r, m, path)
       /\ (~MutexFree /\ pc[r] = "matched") => ENABLED Invoke(r, "Ok")
  /\ \A c \in Callers : (MutexFree /\ calls[c].pc = "called") => ENABLED RegLock(c)
  /\ MutexFree => ENABLED Cleanup

\* a registration holds the writer mutex and a request has been looked up and
\* handed to its callback
C31_Witness ==
  /\ \E c \in Callers : calls[c].pc = "locked"
  /\ \E r \in Requests : pc[r] = "await" /\ rq[r].invoked = rq[r].callback

\* C36: a register and a cleanup leave the published snapshot as it is: the
\* cell keeps its value and every uncached lookup, get_route and get_params,
\* answers after the step what it answered before it. The snapshot changes
\* only in a step of start(), which runs initialise_reader.
C36_SnapshotFrozenBetweenPublications ==
  [][/\ ( \/ (\E m \in RegMethods, pat \in Patterns : Register(m, pat))
          \/ Cleanup )
          => /\ reader' = reader
             /\ \A m \in Methods, path \in Paths :
                  /\ get_route(reader', path, m) = get_route(reader, path, m)
                  /\ get_params(reader', path, m) = get_params(reader, path, m)
     /\ reader' # reader => \E bindOk \in BOOLEAN : Start(bindOk)]_vars

\* after a publication that holds GET /hello the registry was cleaned up: the
\* snapshot still answers the lookup, the writer tries no longer hold the route
C36_Witness ==
  /\ ret = [op |-> "cleanup", ok |-> TRUE]
  /\ reader.init
  /\ get_route(reader, PathHello, "GET") # NoHandle
  /\ ~RouterAt(writer["GET"], PathHello).found

C34_OneAsyncSendSucceeds ==
  \A r \in Requests :
    Cardinality({i \in 1..Len(sendRet[r]) : sendRet[r][i].result = "ok"}) <= 1

\* C32: on one request object the form data and the JSON value of the body are
\* each computed at most once, however often form_data, form_value and
\* body_json are read; reads of the same getter and key return the same
\* value, form_value agrees with form_data, and at most one file is written.
C32_BodyParsedOnce ==
  objects # <<>> =>
    LET o == objects[1]
    IN /\ o.form_parses <= 1
       /\ o.json_parses <= 1
       /\ Cardinality(files) <= 1
       /\ \A i, j \in 1..Len(o.reads) :
            (o.reads[i].getter = o.reads[j].getter /\ o.reads[i].key = o.reads[j].key)
              => o.reads[i].value = o.reads[j].value
       /\ \A i, j \in 1..Len(o.reads) :
            (o.reads[i].getter = "form" /\ o.reads[i].key = ""
             /\ o.reads[j].getter = "form" /\ o.reads[j].key = "f")
              => o.reads[j].value = [k \in 1..Len(o.reads[i].value) |-> o.reads[i].value[k].value]

\* a RequestWrapper with a file part was read three times: form_data twice and
\* form_value("f"); one file is there
C32_Witness ==
  /\ objects # <<>>
  /\ objects[1].kind = "wrapper"
  /\ objects[1].body.name = "f"
  /\ Len(objects[1].reads) = 3
  /\ objects[1].reads[1].key = "" /\ objects[1].reads[1].getter = "form"
  /\ objects[1].reads[2].key = "" /\ objects[1].reads[2].getter = "form"
  /\ objects[1].reads[3].key = "f"
  /\ objects[1].reads[3].value # <<>>
  /\ Cardinality(files) = 1

====
